---- MODULE Spec2Model ----
(***************************************************************************)
(* Media composition pipeline of the new-post form: selection/ingest of    *)
(* images, the per-index crop store, the carousel cursor, the reorder and  *)
(* remove operations and the crop editor's open/commit/close cycle.        *)
(*                                                                         *)
(* Conventions                                                             *)
(*  - A File is a record; its id stands for the identity of the JS File    *)
(*    object.  The files of a list have different ids, except those of the *)
(*    large selections of SpecLimit, which are not told apart.             *)
(*  - cropData is the JS object keyed by index.  A missing key and a key   *)
(*    holding undefined are both the record NoCrop (cropped = FALSE): the  *)
(*    code only ever tests `cropData[i] && cropData[i].cropped`.  The      *)
(*    field madeOn is history: the id of the file that was shown in the    *)
(*    editor when the window was committed.                                *)
(*  - Crop-box coordinates are relative to the displayed image, i.e. the   *)
(*    image's offsetLeft/offsetTop are taken as the origin.                *)
(*  - The crop modal is an overlay: while it is displayed the thumbnails,  *)
(*    the carousel and the form below it receive no clicks.  Asynchronous  *)
(*    completions (file reads, timers, responses) happen regardless.       *)
(***************************************************************************)
EXTENDS Integers, Sequences, FiniteSets, TLC

VARIABLES
    selectedFiles,        \* let selectedFiles = []
    cropData,             \* let cropData = {}
    currentCarouselIndex, \* let currentCarouselIndex = 0
    currentCropIndex,     \* let currentCropIndex = null
    cropState,            \* let cropState = {...}
    cropBox,              \* #cropBox element: its style rectangle
    cropImage,            \* #cropImage element: the file it shows
    modalOpen,            \* #cropModal style.display = 'flex'
    aspectRatio,          \* #aspectRatio select value
    indicators,           \* number of .carousel-indicator elements
    renderPending,        \* re-render timers of reorders may be armed
    ingests,              \* handleMediaSelect calls suspended at an await
    editorLoads,          \* openCropModal calls whose image is loading
    commits,              \* applyCrop calls whose file is being decoded
    opens,                \* times the crop editor has been opened (bounded)
    listeners,            \* which of setupCropBoxListeners' listeners are on
    downs,                \* mousedown events handled so far (bounded)
    submitPending,        \* requests of handleCreatePost may be in flight
    following,            \* frames of the preview followed (0: no output is)
    previews,             \* updatePreview calls whose image is being decoded
    rendered,             \* the frames #previewImages has shown, latest last
    formData              \* the media of the request handleCreatePost builds

vars == <<selectedFiles, cropData, currentCarouselIndex, currentCropIndex,
          cropState, cropBox, cropImage, modalOpen, aspectRatio, indicators,
          renderPending, ingests, editorLoads, commits, opens,
          listeners, downs, submitPending, following, previews, rendered,
          formData>>

----------------------------------------------------------------------------
(* Program constants *)

MaxFiles == 20

MAX_FILE_SIZE == 8 * 1024 * 1024

maxDimension == 1080

(* Bounds of the model *)

MaxBatch == 3

MaxPending == 1

MaxLoads == 1

MaxCommits == 1

MaxOpens == 1

MaxDowns == 2

(* openings of the editor where a second opening is followed *)
MaxReopens == 2

(* suspended handleMediaSelect calls where two selections race *)
MaxRacing == 2

----------------------------------------------------------------------------
(* Values *)

Null == -1

NullKey == -1

CropKeys == NullKey .. (MaxFiles - 1)

NoFile == [id |-> 0, type |-> "", size |-> 0, width |-> 0, height |-> 0]

NoCrop == [cropped |-> FALSE, centerX |-> 0, centerY |-> 0,
           boxWidth |-> 0, boxHeight |-> 0, madeOn |-> 0]

NaN == -999999

NoBox == [x |-> 0, y |-> 0, width |-> 0, height |-> 0]

MiB == 1024 * 1024

Wide == [type |-> "image/jpeg", size |-> 2 * MiB, width |-> 400, height |-> 200]

Square == [type |-> "image/jpeg", size |-> MiB, width |-> 100, height |-> 100]

Ratios == {"original", "1:1"}

(* every ratio the select is given here *)
RatioOptions == Ratios \cup {"4:5", "16:9", "0.8", "1"}

(* the values of the select: a ratio, or 'custom' *)
SelectValues == RatioOptions \cup {"custom"}

(* the value of the #customAspectRatio input: its listener and the one that
   shows it are commented out, and it is left empty *)
customAspectRatio == ""

(* the setting read by displayMediaPreview and updatePreview for the frame,
   by openCropModal and by handleCreatePost: customRatio || 'original' *)
FrameSetting(value, customRatio) ==
    IF value # "custom" THEN value
    ELSE IF customRatio # "" THEN customRatio
    ELSE "original"

(* the setting read by the img.onload of displayMediaPreview and of
   updatePreview and by handleMouseMove: customRatio || '1:1' *)
CropSetting(value, customRatio) ==
    IF value # "custom" THEN value
    ELSE IF customRatio # "" THEN customRatio
    ELSE "1:1"

SeqIds(s) == {s[k].id : k \in 1 .. Len(s)}

IsImage(file) == file.type \in {"image/jpeg", "image/png"}

(* File objects carry an id so that "the same item" can be told from "an
   equal item".  The files of a selection are numbered from 1; id 0 is a file
   that is no longer in the list.  The identity of a File object matters only
   while the object is in the list: once it has left, nothing brings it back,
   and what still refers to it (the image left in the editor, a pending load
   of the editor, the madeOn field of a window) refers to "a file that is
   gone".  `alive` is the set of ids still in the list. *)
Forget(file, alive) ==
    IF file.id \in alive THEN file ELSE [file EXCEPT !.id = 0]

ForgetCrop(crop, alive) ==
    [k \in CropKeys |->
        IF crop[k].madeOn \in alive THEN crop[k]
        ELSE [crop[k] EXCEPT !.madeOn = 0]]

ForgetLoads(loads, alive) ==
    [k \in 1 .. Len(loads) |->
        [loads[k] EXCEPT !.file = Forget(loads[k].file, alive)]]

(* the File objects of a selection: the templates of `batch`, each an object
   of its own *)
NewFiles(batch) ==
    [k \in 1 .. Len(batch) |->
        [id |-> k, type |-> batch[k].type, size |-> batch[k].size,
         width |-> batch[k].width, height |-> batch[k].height]]

(* the same, the objects not told apart *)
Clones(batch) ==
    [k \in 1 .. Len(batch) |->
        [id |-> 1, type |-> batch[k].type, size |-> batch[k].size,
         width |-> batch[k].width, height |-> batch[k].height]]

----------------------------------------------------------------------------
(* Rendering: displayMediaPreview() and updatePreview() *)

(* updatePreview reads selectedFiles[currentCarouselIndex]; readAsDataURL of
   undefined throws a TypeError and the rest of updatePreview is skipped *)
UpdatePreviewThrows(files, cursor) ==
    Len(files) > 0 /\ ~(cursor \in 0 .. (Len(files) - 1))

(* number of carousel indicators after updatePreview() *)
UpdatePreviewIndicators(files, cursor, ind) ==
    IF Len(files) = 0 THEN ind
    ELSE IF UpdatePreviewThrows(files, cursor) THEN ind
    ELSE IF Len(files) > 1 THEN Len(files)
    ELSE 0

(* a frame of the preview: the file whose bitmap was drawn, the ratio in
   force, the window read from the crop store and the source rectangle; the
   frames of files that left the list are kept without their file *)
ForgetFrames(frames, alive) ==
    [k \in 1 .. Len(frames) |->
        IF frames[k].id \in alive THEN frames[k]
        ELSE [frames[k] EXCEPT !.id = 0]]

(* displayMediaPreview(); updatePreview() on the state (files, cursor), the
   files with an id in `alive` being those that were in the list before.
   updatePreview starts the decode of files[cursor]; an image that is not
   one never fires img.onload.  updatePreview also copies the select's value
   to selectedAspectRatio, a variable no live code reads; it is not part of
   the state here. *)
Render(files, cursor, alive) ==
    /\ indicators' = UpdatePreviewIndicators(files, cursor, indicators)
    /\ rendered' = IF following > 0 THEN ForgetFrames(rendered, alive)
                   ELSE rendered
    /\ previews' =
        IF following = 0 THEN previews
        ELSE {Forget(file, alive) : file \in previews}
             \cup (IF /\ Len(files) > 0
                      /\ ~UpdatePreviewThrows(files, cursor)
                      /\ IsImage(files[cursor + 1])
                     THEN {files[cursor + 1]} ELSE {})

(* The value of the #aspectRatio select as its characters.  A number is a
   fraction <<numerator, denominator>>, and <<0, 0>> is NaN. *)
Chars(ratio) ==
    CASE ratio = "1:1" -> <<"1", ":", "1">>
      [] ratio = "4:5" -> <<"4", ":", "5">>
      [] ratio = "16:9" -> <<"1", "6", ":", "9">>
      [] ratio = "0.8" -> <<"0", ".", "8">>
      [] ratio = "1" -> <<"1">>
      [] ratio = "auto" -> <<"a", "u", "t", "o">>
      [] OTHER -> <<"o", "r", "i", "g", "i", "n", "a", "l">>

(* the value of a digit; -1 for any other character *)
DigitValue(c) ==
    CASE c = "0" -> 0 [] c = "1" -> 1 [] c = "2" -> 2 [] c = "3" -> 3
      [] c = "4" -> 4 [] c = "5" -> 5 [] c = "6" -> 6 [] c = "7" -> 7
      [] c = "8" -> 8 [] c = "9" -> 9 [] OTHER -> -1

(* how many digits stand at chars[from], chars[from + 1], ... *)
DigitsFrom(chars, from) ==
    Cardinality({k \in from .. Len(chars) :
                    \A j \in from .. k : DigitValue(chars[j]) >= 0})

(* the number written by the count digits at chars[from] *)
RECURSIVE Number(_, _, _)
Number(chars, from, count) ==
    IF count = 0 THEN 0
    ELSE 10 * Number(chars, from, count - 1)
            + DigitValue(chars[from + count - 1])

(* the number of `whole` digits, a point and `decimals` digits; NaN when
   there is no digit *)
Decimal(chars, whole, decimals) ==
    IF whole + decimals = 0 THEN <<0, 0>>
    ELSE <<Number(chars, 1, whole) * (10 ^ decimals)
              + Number(chars, whole + 2, decimals), 10 ^ decimals>>

(* parseFloat of a string that starts with `whole` digits *)
ParseFloatAfter(chars, whole) ==
    IF whole < Len(chars) /\ chars[whole + 1] = "."
        THEN Decimal(chars, whole, DigitsFrom(chars, whole + 2))
        ELSE Decimal(chars, whole, 0)

(* parseFloat of a string without sign or exponent: the longest prefix of
   digits, a point and digits; NaN when it holds no digit *)
ParseFloat(chars) == ParseFloatAfter(chars, DigitsFrom(chars, 1))

(* chars.split(':') *)
Split(chars) ==
    LET colons == {k \in 1 .. Len(chars) : chars[k] = ":"}
        \* the position of the j-th colon; 0 and Len + 1 bound the string
        Colon(j) ==
            IF j = 0 THEN 0
            ELSE IF j > Cardinality(colons) THEN Len(chars) + 1
            ELSE CHOOSE k \in colons :
                    Cardinality({c \in colons : c < k}) = j - 1
    IN  [j \in 1 .. (Cardinality(colons) + 1) |->
            SubSeq(chars, Colon(j - 1) + 1, Colon(j) - 1)]

(* w / h of two numbers; NaN when either is *)
Quotient(w, h) ==
    IF w[2] = 0 \/ h[2] = 0 THEN <<0, 0>> ELSE <<w[1] * h[2], w[2] * h[1]>>

(* "W:H" split on ':' and both parts parsed, w / h; a text without ':'
   parsed as it is.  displayMediaPreview, updatePreview and openCropModal
   each repeat these lines. *)
ParseRatio(chars) ==
    IF \E k \in 1 .. Len(chars) : chars[k] = ":"
        THEN Quotient(ParseFloat(Split(chars)[1]), ParseFloat(Split(chars)[2]))
        ELSE ParseFloat(chars)

(* the same, worked out once for every value of the select *)
RatioValues == [ratio \in RatioOptions |-> ParseRatio(Chars(ratio))]

RatioValue(ratio) == RatioValues[ratio]

(* normalizeAspectRatio, but the text is returned whatever it is *)
NormalizeKeepsText(ratio) == [number |-> FALSE, text |-> Chars(ratio)]

(* normalizeAspectRatio on the parts of a text with ':' that were parsed *)
NormalizeParts(text, width, height) ==
    IF width[2] # 0 /\ height[2] # 0
        THEN [number |-> TRUE, value |-> Quotient(width, height)]
        ELSE text

(* normalizeAspectRatio(ratio): 'auto', the number w / h of a "W:H", or the
   text as it is *)
NormalizeAspectRatio(ratio) ==
    IF ratio \in {"original", "auto"}
        THEN [number |-> FALSE, text |-> Chars("auto")]
    ELSE IF Len(Split(Chars(ratio))) = 2
        THEN NormalizeParts([number |-> FALSE, text |-> Chars(ratio)],
                            ParseFloat(Split(Chars(ratio))[1]),
                            ParseFloat(Split(Chars(ratio))[2]))
    ELSE [number |-> FALSE, text |-> Chars(ratio)]

(* parseFloat of what normalizeAspectRatio returned; a number is converted
   to its shortest decimal text, which parses back to the same number *)
ParseNormalized(normalized) ==
    IF normalized.number THEN normalized.value
    ELSE ParseFloat(normalized.text)

(* parseFloat(normalizeAspectRatio(ratio)), worked out once for every value
   of the select *)
NormalizedValues ==
    [ratio \in RatioOptions |-> ParseNormalized(NormalizeAspectRatio(ratio))]

(* targetRatio of handleMouseMove *)
ResizeRatio(ratio, originalAspectRatio) ==
    IF CropSetting(ratio, customAspectRatio) = "original"
        THEN originalAspectRatio
        ELSE NormalizedValues[CropSetting(ratio, customAspectRatio)]

(* targetRatio of the previews, as a fraction: img.width / img.height under
   'original', the parsed value otherwise *)
PreviewRatio(ratio, imgWidth, imgHeight) ==
    IF CropSetting(ratio, customAspectRatio) = "original"
        THEN <<imgWidth, imgHeight>>
        ELSE RatioValue(CropSetting(ratio, customAspectRatio))

(* the box is always made from the stored height *)
KeepsHeightAlways(window, imgWidth, imgHeight, targetRatio) == TRUE

(* is the box made from the stored height (TRUE) or from the stored width?
   The comparisons are those of the code, on the quotients before any
   rounding: h * r <= W, then w / r <= H, then w / W > h / H. *)
KeepsHeight(window, imgWidth, imgHeight, targetRatio) ==
    IF window.boxHeight * targetRatio[1] <= imgWidth * targetRatio[2] THEN TRUE
    ELSE IF window.boxWidth * targetRatio[2] <= imgHeight * targetRatio[1]
        THEN FALSE
    ELSE ~(window.boxWidth * imgHeight > window.boxHeight * imgWidth)

(* the source rectangle img.onload of displayMediaPreview and of
   updatePreview draws for a stored window: the stored centre, a box of the
   target ratio made from the stored height or width, clamped to the image.
   Lengths are whole pixels; a quotient is cut to a whole pixel. *)
EffectiveCropBox(window, imgWidth, imgHeight, ratio) ==
    LET targetRatio == PreviewRatio(ratio, imgWidth, imgHeight)
        storedBoxWidth == window.boxWidth
        storedBoxHeight == window.boxHeight
        possibleWidthFromHeight ==
            (storedBoxHeight * targetRatio[1]) \div targetRatio[2]
        possibleHeightFromWidth ==
            (storedBoxWidth * targetRatio[2]) \div targetRatio[1]
        fromHeight == KeepsHeight(window, imgWidth, imgHeight, targetRatio)
        boxWidth == IF fromHeight THEN possibleWidthFromHeight
                    ELSE storedBoxWidth
        boxHeight == IF fromHeight THEN storedBoxHeight
                     ELSE possibleHeightFromWidth
        cropX == (2 * window.centerX - boxWidth) \div 2
        cropY == (2 * window.centerY - boxHeight) \div 2
        lowX == IF cropX <= imgWidth - boxWidth THEN cropX
                ELSE imgWidth - boxWidth
        lowY == IF cropY <= imgHeight - boxHeight THEN cropY
                ELSE imgHeight - boxHeight
        clampedX == IF lowX >= 0 THEN lowX ELSE 0
        clampedY == IF lowY >= 0 THEN lowY ELSE 0
        clampedW == IF boxWidth <= imgWidth - clampedX THEN boxWidth
                    ELSE imgWidth - clampedX
        clampedH == IF boxHeight <= imgHeight - clampedY THEN boxHeight
                    ELSE imgHeight - clampedY
    IN  [x |-> clampedX, y |-> clampedY, width |-> clampedW,
         height |-> clampedH]

(* frames of the preview that are remembered at most *)
MaxFrames == 3

(* the source rectangle img.onload of updatePreview draws of the bitmap
   `file`: the window stored under the cursor of the moment, recomputed for
   the ratio in force, or the whole bitmap.  A window of NaN gives a canvas
   of no size and a drawImage that draws nothing. *)
PreviewBox(file, crop, cursor, ratio) ==
    IF ~crop[cursor].cropped
        THEN [x |-> 0, y |-> 0, width |-> file.width, height |-> file.height]
    ELSE IF crop[cursor].centerX = NaN \/ crop[cursor].boxWidth = NaN
        THEN NoBox
    ELSE EffectiveCropBox(crop[cursor], file.width, file.height, ratio)

(* what a render would leave in the crop store, did it write the rectangle
   it has drawn back as the window *)
StoreDrawn(crop, cursor, box) ==
    IF crop[cursor].cropped /\ box # NoBox
        THEN [crop EXCEPT ![cursor].centerX = box.x + box.width \div 2,
                          ![cursor].centerY = box.y + box.height \div 2,
                          ![cursor].boxWidth = box.width,
                          ![cursor].boxHeight = box.height]
        ELSE crop

(* the frame img.onload leaves in the preview: the bitmap decoded is the file
   read when updatePreview was called, the window is
   cropData[currentCarouselIndex] of now *)
Frame(file) ==
    [id |-> file.id, ratio |-> aspectRatio,
     window |-> cropData[currentCarouselIndex],
     box |-> PreviewBox(file, cropData, currentCarouselIndex, aspectRatio)]

(* the frames remembered after one more *)
Remember(frames) ==
    IF Len(frames) > following THEN Tail(frames) ELSE frames

(* img.onload, did it store the rectangle drawn as the window *)
PreviewDecodedStoring(file) ==
    /\ file \in previews
    /\ previews' = previews \ {file}
    /\ rendered' = Remember(Append(rendered, Frame(file)))
    /\ cropData' = StoreDrawn(cropData, currentCarouselIndex, Frame(file).box)
    /\ UNCHANGED <<selectedFiles, currentCarouselIndex,
                   currentCropIndex, cropState, cropBox, cropImage, modalOpen,
                   aspectRatio, indicators, renderPending, ingests,
                   editorLoads, commits, submitPending, opens, listeners,
                   downs, following, formData>>

(* img.onload of an updatePreview; previewImg.src = canvas.toDataURL() *)
PreviewDecoded(file) ==
    /\ file \in previews
    /\ previews' = previews \ {file}
    /\ rendered' = Remember(Append(rendered, Frame(file)))
    /\ UNCHANGED <<selectedFiles, cropData, currentCarouselIndex,
                   currentCropIndex, cropState, cropBox, cropImage, modalOpen,
                   aspectRatio, indicators, renderPending, ingests,
                   editorLoads, commits, submitPending, opens, listeners,
                   downs, following, formData>>

----------------------------------------------------------------------------
(* Ingest: handleMediaSelect, processImage, resizeImage *)

(* the width, were only landscape images scaled *)
ResizeWidthLandscapeOnly(width, height) ==
    IF width > height /\ width > maxDimension THEN maxDimension ELSE width

(* the dimensions resizeImage gives the canvas; a canvas dimension is an
   integer, the fraction is dropped on assignment *)
ResizeWidth(width, height) ==
    IF width > height /\ width > maxDimension THEN maxDimension
    ELSE IF height > maxDimension THEN (width * maxDimension) \div height
    ELSE width

ResizeHeight(width, height) ==
    IF width > height /\ width > maxDimension
        THEN (height * maxDimension) \div width
    ELSE IF height > maxDimension THEN maxDimension
    ELSE height

(* sizes the re-encoded blob may have *)
ResizedSizes == {3 * MiB}

(* resizeImage(file) resolved: new File([blob], file.name, {type}) *)
ResizedFile(file, size) ==
    [id |-> file.id, type |-> file.type, size |-> size,
     width |-> ResizeWidth(file.width, file.height),
     height |-> ResizeHeight(file.width, file.height)]

(* processImage: does the file go to resizeImage? *)
NeedsResizeAtLimit(file) == file.size >= MAX_FILE_SIZE

NeedsResize(file) == file.size > MAX_FILE_SIZE

(* a processImage whose rejection leaves nothing in the file's place *)
ProcessImageOutcomesNoFallback(file) ==
    IF NeedsResize(file)
        THEN {[why |-> "decode", file |-> NoFile]}
        ELSE {[why |-> "passed", file |-> file]}

(* a processImage whose failures are never signalled: where the canvas has
   no blob, toBlob's callback neither resolves nor rejects *)
ProcessImageOutcomesSilent(file) ==
    IF NeedsResize(file)
        THEN {[why |-> "resized", file |-> ResizedFile(file, sz)] :
                sz \in IF ResizeWidth(file.width, file.height) > 0
                          /\ ResizeHeight(file.width, file.height) > 0
                       THEN ResizedSizes ELSE {}}
        ELSE {[why |-> "passed", file |-> file]}

(* how `await processImage(file)` inside the try of handleMediaSelect can
   end, and the file that is pushed then: "passed" resolves with the file
   itself, "resized" with the re-encoded one; "decode" (reader.onerror,
   img.onerror) and "encode" (toBlob gave null) reject, and the catch pushes
   the original.  A canvas with a zero dimension has no blob. *)
ProcessImageOutcomes(file) ==
    IF NeedsResize(file)
        THEN {[why |-> "resized", file |-> ResizedFile(file, sz)] :
                sz \in IF ResizeWidth(file.width, file.height) > 0
                          /\ ResizeHeight(file.width, file.height) > 0
                       THEN ResizedSizes ELSE {}}
             \cup {[why |-> "decode", file |-> file],
                   [why |-> "encode", file |-> file]}
        ELSE {[why |-> "passed", file |-> file]}

(* the for-loop of handleMediaSelect up to its next await: files that are not
   images are pushed as they are *)
RECURSIVE RunSync(_, _)
RunSync(files, processed) ==
    IF Len(processed) < Len(files) /\ ~IsImage(files[Len(processed) + 1])
        THEN RunSync(files, Append(processed, files[Len(processed) + 1]))
        ELSE processed

(* an install that leaves a list already installed as it is *)
KeepsInstalled(existing, processed) ==
    IF existing = <<>> THEN processed ELSE existing

(* the list handleMediaSelect installs: selectedFiles = processedFiles *)
InstalledFiles(existing, processed) == processed

(* the tail of handleMediaSelect: selectedFiles = processedFiles;
   displayMediaPreview(); updatePreview() *)
Install(processed) ==
    /\ selectedFiles' = InstalledFiles(selectedFiles, processed)
    /\ Render(selectedFiles', currentCarouselIndex, {})
    /\ cropData' = ForgetCrop(cropData, {})
    /\ cropImage' = Forget(cropImage, {})
    /\ editorLoads' = ForgetLoads(editorLoads, {})

(* a handleMediaSelect without the limit: the variant against which the
   bound on the composition is tested *)
AcceptsAnyBatch(existing, n) == TRUE

(* does handleMediaSelect accept a selection of n files? *)
AcceptsBatch(existing, n) == ~(n > MaxFiles)

(* handleMediaSelect(e) up to its first await or to its end; limit bounds
   the calls that are suspended at one time *)
HandleMediaSelectWithin(limit, files) ==
    /\ ~modalOpen
    /\ IF ~AcceptsBatch(Len(selectedFiles), Len(files))
        THEN UNCHANGED <<selectedFiles, ingests, indicators, previews, rendered, cropData,
                         cropImage, editorLoads>>
        ELSE LET processed == RunSync(files, <<>>)
             IN  IF Len(processed) = Len(files)
                 THEN /\ Install(processed)
                      /\ UNCHANGED <<ingests>>
                 ELSE /\ Len(ingests) < limit
                      /\ ingests' = Append(ingests,
                             [files |-> files, processed |-> processed])
                      /\ UNCHANGED <<selectedFiles, indicators, previews, rendered, cropData,
                                     cropImage, editorLoads>>
    /\ UNCHANGED <<currentCarouselIndex, currentCropIndex, cropState, cropBox,
                   modalOpen, aspectRatio, renderPending, commits,
                   submitPending, opens, listeners, downs, following, formData>>

(* at most MaxPending calls suspended at one time *)
HandleMediaSelect(files) == HandleMediaSelectWithin(MaxPending, files)

RemoveAt(s, k) == SubSeq(s, 1, k - 1) \o SubSeq(s, k + 1, Len(s))

(* an `await processImage(file)` of a suspended handleMediaSelect completes
   with outcome `out` and the call runs on to its next await or to its end *)
ProcessImageStep(k, out) ==
    /\ k \in 1 .. Len(ingests)
    /\ LET t == ingests[k]
           file == t.files[Len(t.processed) + 1]
           processed == RunSync(t.files, Append(t.processed, out.file))
       IN  /\ out \in ProcessImageOutcomes(file)
           /\ IF Len(processed) = Len(t.files)
                 THEN /\ Install(processed)
                      /\ ingests' = RemoveAt(ingests, k)
                 ELSE /\ ingests' = [ingests EXCEPT ![k].processed = processed]
                      /\ UNCHANGED <<selectedFiles, indicators, previews, rendered, cropData,
                                     cropImage, editorLoads>>
    /\ UNCHANGED <<currentCarouselIndex, currentCropIndex, cropState, cropBox,
                   modalOpen, aspectRatio, renderPending, commits,
                   submitPending, opens, listeners, downs, following, formData>>

(* the file a suspended handleMediaSelect is awaiting *)
Awaited(k) == ingests[k].files[Len(ingests[k].processed) + 1]

ProcessImageDone(k) ==
    /\ k \in 1 .. Len(ingests)
    /\ \E out \in ProcessImageOutcomes(Awaited(k)) : ProcessImageStep(k, out)

----------------------------------------------------------------------------
(* Reorder: moveMediaUp, moveMediaDown, moveMediaToFirst, moveMediaToLast.
   `index` is 0-based as in the code; selectedFiles[index] of the code is
   selectedFiles[index + 1] here. *)

Swap(s, i, j) == [s EXCEPT ![i] = s[j], ![j] = s[i]]

(* splice(index, 1) then unshift(item) *)
ToFirst(s, index) ==
    <<s[index + 1]>> \o SubSeq(s, 1, index) \o SubSeq(s, index + 2, Len(s))

(* a move to the end that exchanges the item with the last one *)
ToLastBySwap(s, index) == [s EXCEPT ![index + 1] = s[Len(s)],
                                    ![Len(s)] = s[index + 1]]

(* splice(index, 1) then push(item) *)
ToLast(s, index) ==
    SubSeq(s, 1, index) \o SubSeq(s, index + 2, Len(s)) \o <<s[index + 1]>>

(* the crop store after moveMediaUp(index) / moveMediaDown(index): the two
   keys exchange their values *)
SwapCrop(crop, i, j) == [crop EXCEPT ![i] = crop[j], ![j] = crop[i]]

(* newCropData of moveMediaToFirst: keys below index move up by one, keys
   above it stay, the "null" key is lost (parseInt gives NaN), and the moved
   item's window, if it has one, goes to key 0 *)
ToFirstCrop(crop, index) ==
    [k \in CropKeys |->
        IF k = NullKey THEN NoCrop
        ELSE IF k = 0 THEN (IF crop[index].cropped THEN crop[index] ELSE NoCrop)
        ELSE IF k <= index THEN crop[k - 1]
        ELSE crop[k]]

(* newCropData of moveMediaToLast: keys above index move down by one, keys
   below it stay, and the moved item's window, if it has one, is written to
   lastIndex after the loop *)
ToLastCrop(crop, index, lastIndex) ==
    [k \in CropKeys |->
        IF k = NullKey THEN NoCrop
        ELSE IF k = lastIndex /\ crop[index].cropped THEN crop[index]
        ELSE IF k < index THEN crop[k]
        ELSE IF k + 1 \in CropKeys THEN crop[k + 1]
        ELSE NoCrop]

UpCursor(cursor, index) ==
    IF cursor = index THEN index - 1
    ELSE IF cursor = index - 1 THEN index
    ELSE cursor

DownCursor(cursor, index) ==
    IF cursor = index THEN index + 1
    ELSE IF cursor = index + 1 THEN index
    ELSE cursor

(* a moveMediaToFirst that leaves the cursor where it is: the variant against
   which the cursor's following its item is tested *)
StayCursor(cursor, index) == cursor

ToFirstCursor(cursor, index) ==
    IF cursor = index THEN 0
    ELSE IF cursor < index THEN cursor + 1
    ELSE cursor

ToLastCursor(cursor, index, lastIndex) ==
    IF cursor = index THEN lastIndex
    ELSE IF cursor > index THEN cursor - 1
    ELSE cursor

(* what no reorder touches; the re-render is deferred by setTimeout(150) *)
MoveFrame ==
    /\ renderPending' = TRUE
    /\ UNCHANGED <<currentCropIndex, cropState, cropBox, cropImage, modalOpen,
                   aspectRatio, indicators, previews, rendered, ingests,
                   editorLoads, commits, submitPending, opens, listeners, downs, following, formData>>

(* the thumbnails' buttons carry the indices 0 .. length-1 of the list they
   were rendered from *)
Thumbnails == 0 .. (Len(selectedFiles) - 1)

MoveMediaUp(index) ==
    /\ ~modalOpen
    /\ index \in Thumbnails
    /\ index > 0
    /\ selectedFiles' = Swap(selectedFiles, index + 1, index)
    /\ cropData' = SwapCrop(cropData, index, index - 1)
    /\ currentCarouselIndex' = UpCursor(currentCarouselIndex, index)
    /\ MoveFrame

MoveMediaDown(index) ==
    /\ ~modalOpen
    /\ index \in Thumbnails
    /\ index < Len(selectedFiles) - 1
    /\ selectedFiles' = Swap(selectedFiles, index + 1, index + 2)
    /\ cropData' = SwapCrop(cropData, index, index + 1)
    /\ currentCarouselIndex' = DownCursor(currentCarouselIndex, index)
    /\ MoveFrame

MoveMediaToFirst(index) ==
    /\ ~modalOpen
    /\ index \in Thumbnails
    /\ index > 0
    /\ selectedFiles' = ToFirst(selectedFiles, index)
    /\ cropData' = ToFirstCrop(cropData, index)
    /\ currentCarouselIndex' = ToFirstCursor(currentCarouselIndex, index)
    /\ MoveFrame

MoveMediaToLast(index) ==
    /\ ~modalOpen
    /\ index \in Thumbnails
    /\ index < Len(selectedFiles) - 1
    /\ selectedFiles' = ToLast(selectedFiles, index)
    /\ cropData' = ToLastCrop(cropData, index, Len(selectedFiles) - 1)
    /\ currentCarouselIndex' = ToLastCursor(currentCarouselIndex, index,
                                            Len(selectedFiles) - 1)
    /\ MoveFrame

(* the timer of a reorder fires: displayMediaPreview(); updatePreview().
   Every reorder arms a timer of its own, so their number has no bound; the
   state keeps only whether one may be armed.  It stays so once a reorder
   has happened: moving an item forth and back arms two timers and changes
   nothing else. *)
RenderTimer ==
    /\ renderPending
    /\ Render(selectedFiles, currentCarouselIndex, SeqIds(selectedFiles))
    /\ UNCHANGED <<selectedFiles, renderPending, cropData, currentCarouselIndex,
                   currentCropIndex, cropState, cropBox, cropImage, modalOpen,
                   aspectRatio, ingests, editorLoads, commits, submitPending, opens, listeners, downs, following, formData>>

(* the 'input' listener of #postCaption: updatePreview() *)
UpdatePreview ==
    /\ ~modalOpen
    /\ Render(selectedFiles, currentCarouselIndex, SeqIds(selectedFiles))
    /\ UNCHANGED <<selectedFiles, renderPending, cropData, currentCarouselIndex,
                   currentCropIndex, cropState, cropBox, cropImage, modalOpen,
                   aspectRatio, ingests, editorLoads, commits, submitPending,
                   opens, listeners, downs, following, formData>>

(* the crop store after removeMedia(index): it is not touched *)
RemoveCrop(crop, index) == crop

(* the cursor after removeMedia(index) *)
RemoveCursor(cursor, index) == 0

RemoveMedia(index) ==
    /\ ~modalOpen
    /\ index \in Thumbnails
    /\ selectedFiles' = RemoveAt(selectedFiles, index + 1)
    /\ cropData' = ForgetCrop(RemoveCrop(cropData, index),
                              SeqIds(selectedFiles'))
    /\ cropImage' = Forget(cropImage, SeqIds(selectedFiles'))
    /\ editorLoads' = ForgetLoads(editorLoads, SeqIds(selectedFiles'))
    /\ currentCarouselIndex' = RemoveCursor(currentCarouselIndex, index)
    /\ Render(selectedFiles', currentCarouselIndex', SeqIds(selectedFiles'))
    /\ UNCHANGED <<currentCropIndex, cropState, cropBox, modalOpen,
                   aspectRatio, renderPending, ingests, commits,
                   submitPending, opens, listeners, downs, following, formData>>

----------------------------------------------------------------------------
(* Carousel: navigateCarousel and the indicator click handler *)

NavigateCursor(cursor, direction, length) ==
    IF cursor + direction < 0 THEN length - 1
    ELSE IF cursor + direction >= length THEN 0
    ELSE cursor + direction

NavigateCarousel(direction) ==
    /\ ~modalOpen
    /\ IF Len(selectedFiles) <= 1
        THEN UNCHANGED <<currentCarouselIndex, indicators, previews, rendered>>
        ELSE /\ currentCarouselIndex' =
                   NavigateCursor(currentCarouselIndex, direction,
                                  Len(selectedFiles))
             /\ Render(selectedFiles, currentCarouselIndex',
                       SeqIds(selectedFiles))
    /\ UNCHANGED <<selectedFiles, cropData, currentCropIndex, cropState,
                   cropBox, cropImage, modalOpen, aspectRatio, renderPending,
                   ingests, editorLoads, commits, submitPending, opens, listeners, downs, following, formData>>

(* click on the indicator built for idx *)
IndicatorClick(idx) ==
    /\ ~modalOpen
    /\ idx \in 0 .. (indicators - 1)
    /\ currentCarouselIndex' = idx
    /\ Render(selectedFiles, idx, SeqIds(selectedFiles))
    /\ UNCHANGED <<selectedFiles, cropData, currentCropIndex, cropState,
                   cropBox, cropImage, modalOpen, aspectRatio, renderPending,
                   ingests, editorLoads, commits, submitPending, opens, listeners, downs, following, formData>>

(* the user picks another entry of the #aspectRatio select; its change
   handler is commented out, so nothing else happens *)
SelectAspectRatio(ratio) ==
    /\ ~modalOpen
    /\ ratio \in SelectValues
    /\ aspectRatio' = ratio
    /\ UNCHANGED <<selectedFiles, cropData, currentCarouselIndex,
                   currentCropIndex, cropState, cropBox, cropImage, modalOpen,
                   indicators, previews, rendered, renderPending, ingests,
                   editorLoads, commits, submitPending, opens, listeners, downs, following, formData>>

----------------------------------------------------------------------------
(* Crop editor: openCropModal, applyCrop, closeCropModal *)

EditorMax == 200

Max(a, b) == IF a >= b THEN a ELSE b

(* cropImage.offsetWidth / offsetHeight: the image is laid out to fit the
   editor, keeping its proportions; a hidden modal lays nothing out *)
DisplayWidth(file, shown) ==
    IF ~shown \/ file.width = 0 THEN 0
    ELSE IF Max(file.width, file.height) <= EditorMax THEN file.width
    ELSE (file.width * EditorMax) \div Max(file.width, file.height)

DisplayHeight(file, shown) ==
    IF ~shown \/ file.width = 0 THEN 0
    ELSE IF Max(file.width, file.height) <= EditorMax THEN file.height
    ELSE (file.height * EditorMax) \div Max(file.width, file.height)

(* targetRatio of openCropModal, as a fraction *)
TargetRatio(ratio, imageWidth, imageHeight) ==
    IF FrameSetting(ratio, customAspectRatio) = "original"
        THEN <<imageWidth, imageHeight>>
        ELSE RatioValue(FrameSetting(ratio, customAspectRatio))

NoHandle == "null"

InitialCropState ==
    [startX |-> 0, startY |-> 0, startWidth |-> 0, startHeight |-> 0,
     startLeft |-> 0, startTop |-> 0, isMoving |-> FALSE,
     isResizing |-> FALSE, resizeHandle |-> NoHandle,
     cropBox |-> <<>>, imageWidth |-> 0, imageHeight |-> 0,
     originalAspectRatio |-> <<1, 1>>]

(* the box of the target ratio as wide as the displayed image, whatever its
   height comes to *)
DefaultBoxByWidth(imageWidth, imageHeight, target) ==
    [x |-> 0,
     y |-> (imageHeight - (imageWidth * target[2]) \div target[1]) \div 2,
     width |-> imageWidth,
     height |-> (imageWidth * target[2]) \div target[1]]

(* the largest box of the target ratio, centred on the displayed image *)
DefaultBox(imageWidth, imageHeight, target) ==
    LET wider == imageWidth * target[2] > target[1] * imageHeight
        cropHeight == IF wider THEN imageHeight
                      ELSE (imageWidth * target[2]) \div target[1]
        cropWidth == IF wider THEN (imageHeight * target[1]) \div target[2]
                     ELSE imageWidth
    IN  [x |-> (imageWidth - cropWidth) \div 2,
         y |-> (imageHeight - cropHeight) \div 2,
         width |-> cropWidth, height |-> cropHeight]

(* the default box computed while the modal is hidden: the image measures
   0 x 0, so under 'original' the ratio is 0/0 *)
HiddenDefaultBox(ratio) ==
    IF ratio = "original"
        THEN [x |-> 0, y |-> NaN, width |-> 0, height |-> NaN]
        ELSE NoBox

(* a stored window converted to display pixels, the centre taken for the
   corner *)
RestoredAtCentre(window, imageWidth, imageHeight, naturalWidth, naturalHeight) ==
    [x |-> (window.centerX * imageWidth) \div naturalWidth,
     y |-> (window.centerY * imageHeight) \div naturalHeight,
     width |-> (window.boxWidth * imageWidth) \div naturalWidth,
     height |-> (window.boxHeight * imageHeight) \div naturalHeight]

(* a stored window converted to display pixels *)
RestoredBox(window, imageWidth, imageHeight, naturalWidth, naturalHeight) ==
    IF window.centerX = NaN
        THEN [x |-> NaN, y |-> NaN, width |-> NaN, height |-> NaN]
    ELSE
    LET displayCenterX == (window.centerX * imageWidth) \div naturalWidth
        displayCenterY == (window.centerY * imageHeight) \div naturalHeight
        displayBoxWidth == (window.boxWidth * imageWidth) \div naturalWidth
        displayBoxHeight == (window.boxHeight * imageHeight) \div naturalHeight
    IN  [x |-> displayCenterX - displayBoxWidth \div 2,
         y |-> displayCenterY - displayBoxHeight \div 2,
         width |-> displayBoxWidth, height |-> displayBoxHeight]

(* element.style.left = v + 'px': a NaN length is not valid CSS and leaves
   the property as it was *)
StyleSet(old, v) == IF v = NaN THEN old ELSE v

(* element.style.width = v + 'px': a negative width or height is not valid
   CSS either *)
StyleSize(old, v) == IF v = NaN \/ v < 0 THEN old ELSE v

StyleBox(old, box) ==
    [x |-> StyleSet(old.x, box.x), y |-> StyleSet(old.y, box.y),
     width |-> StyleSize(old.width, box.width),
     height |-> StyleSize(old.height, box.height)]

(* openCropModal(index) up to reader.readAsDataURL(file), by the thumbnail's
   crop button; limit bounds the openings followed in a behaviour *)
OpenCropModalWithin(limit, index) ==
    /\ ~modalOpen
    /\ index \in Thumbnails
    /\ IsImage(selectedFiles[index + 1])
    /\ Len(editorLoads) < MaxLoads
    /\ opens < limit
    /\ opens' = opens + 1
    /\ UNCHANGED <<listeners, downs, following, formData>>
    /\ currentCropIndex' = index
    /\ editorLoads' = Append(editorLoads,
            [file |-> selectedFiles[index + 1], index |-> index, set |-> FALSE])
    /\ modalOpen' = TRUE
    /\ UNCHANGED <<selectedFiles, cropData, currentCarouselIndex, cropState,
                   cropBox, cropImage, aspectRatio, indicators, previews, rendered, renderPending, ingests, commits,
                   submitPending>>

(* the editor opened at most MaxOpens times in a behaviour *)
OpenCropModal(index) == OpenCropModalWithin(MaxOpens, index)

(* reader.onload of openCropModal: cropImage.src = e.target.result *)
EditorImageRead(k) ==
    /\ k \in 1 .. Len(editorLoads)
    /\ ~editorLoads[k].set
    /\ cropImage' = editorLoads[k].file
    /\ editorLoads' = [editorLoads EXCEPT ![k].set = TRUE]
    /\ UNCHANGED <<selectedFiles, cropData, currentCarouselIndex,
                   currentCropIndex, cropState, cropBox, modalOpen, aspectRatio,
                   indicators, previews, rendered, renderPending, ingests,
                   commits, submitPending, opens, listeners, downs, following, formData>>

(* cropImage.onload and its 100 ms timer: measure the image, place the box *)
EditorImageShown(k) ==
    /\ k \in 1 .. Len(editorLoads)
    /\ editorLoads[k].set
    /\ LET index == editorLoads[k].index
           imageWidth == DisplayWidth(cropImage, modalOpen)
           imageHeight == DisplayHeight(cropImage, modalOpen)
           default == IF modalOpen
                        THEN DefaultBox(imageWidth, imageHeight,
                                TargetRatio(aspectRatio, imageWidth, imageHeight))
                        ELSE HiddenDefaultBox(aspectRatio)
           box == IF cropData[index].cropped
                    THEN RestoredBox(cropData[index], imageWidth, imageHeight,
                                     cropImage.width, cropImage.height)
                    ELSE default
       IN  /\ cropState' = [cropState EXCEPT
                            !.cropBox = <<box>>, !.imageWidth = imageWidth,
                            !.imageHeight = imageHeight,
                            !.originalAspectRatio = <<imageWidth, imageHeight>>]
           /\ cropBox' = StyleBox(cropBox, box)
    /\ listeners' = "all"
    /\ editorLoads' = RemoveAt(editorLoads, k)
    /\ UNCHANGED <<selectedFiles, cropData, currentCarouselIndex,
                   currentCropIndex, cropImage, modalOpen, aspectRatio,
                   indicators, previews, rendered, renderPending, ingests,
                   commits, submitPending, opens, downs, following, formData>>

(* closeCropModal() *)
CloseEffects ==
    /\ modalOpen' = FALSE
    /\ currentCropIndex' = Null
    /\ listeners' = IF listeners = "all" THEN "box" ELSE listeners
    /\ cropState' = InitialCropState

CloseCropModal ==
    /\ modalOpen
    /\ CloseEffects
    /\ UNCHANGED <<selectedFiles, cropData, currentCarouselIndex, cropBox,
                   cropImage, aspectRatio, indicators, previews, rendered, renderPending, ingests,
                   editorLoads, commits, submitPending, opens, downs, following, formData>>

(* applyCrop() up to reader.readAsDataURL(file) *)
ApplyCrop ==
    /\ modalOpen
    /\ IF currentCropIndex = Null \/ cropState.cropBox = <<>>
            \/ ~(currentCropIndex \in Thumbnails)
        THEN UNCHANGED commits
        ELSE /\ Len(commits) < MaxCommits
             /\ commits' = Append(commits,
                    [selectedFiles[currentCropIndex + 1] EXCEPT !.id = 0])
    /\ UNCHANGED <<selectedFiles, cropData, currentCarouselIndex,
                   currentCropIndex, cropState, cropBox, cropImage, modalOpen,
                   aspectRatio, indicators, previews, rendered, renderPending,
                   ingests, editorLoads, submitPending, opens, listeners, downs, following, formData>>

(* the window applyCrop derives from the crop box element, the displayed
   image and the decoded file; with the modal hidden every rectangle is 0
   and the scale is x/0 *)
CommittedWindow(box, displayWidth, displayHeight, file, shownId) ==
    IF displayWidth = 0 \/ displayHeight = 0
        THEN [cropped |-> TRUE, centerX |-> NaN, centerY |-> NaN,
              boxWidth |-> NaN, boxHeight |-> NaN, madeOn |-> shownId]
        ELSE [cropped |-> TRUE,
              centerX |-> ((2 * box.x + box.width) * file.width)
                              \div (2 * displayWidth),
              centerY |-> ((2 * box.y + box.height) * file.height)
                              \div (2 * displayHeight),
              boxWidth |-> (box.width * file.width) \div displayWidth,
              boxHeight |-> (box.height * file.height) \div displayHeight,
              madeOn |-> shownId]

(* key under which applyCrop's img.onload stores the window *)
CommitKey(cropIndex) == cropIndex

(* img.onload of applyCrop *)
ApplyCropDone(k) ==
    /\ k \in 1 .. Len(commits)
    /\ IsImage(commits[k])
    /\ cropData' = [cropData EXCEPT ![CommitKey(currentCropIndex)] =
            CommittedWindow(cropBox, DisplayWidth(cropImage, modalOpen),
                            DisplayHeight(cropImage, modalOpen), commits[k],
                            cropImage.id)]
    /\ Render(selectedFiles, currentCarouselIndex, SeqIds(selectedFiles))
    /\ IF UpdatePreviewThrows(selectedFiles, currentCarouselIndex)
        THEN UNCHANGED <<modalOpen, currentCropIndex, cropState, listeners>>
        ELSE CloseEffects
    /\ commits' = RemoveAt(commits, k)
    /\ UNCHANGED <<selectedFiles, currentCarouselIndex, cropBox, cropImage,
                   aspectRatio, renderPending, ingests, editorLoads,
                   submitPending, opens, downs, following, formData>>

----------------------------------------------------------------------------
(* Crop controller: the mousedown / mousemove / mouseup listeners of
   setupCropBoxListeners.  Lengths are whole pixels; a quotient is cut to a
   whole pixel.  NaN is carried through the arithmetic as JavaScript does. *)

(* the .crop-handle elements of the crop box, by the suffix of their class *)
Handles == {"n", "s", "e", "w", "ne", "nw", "se", "sw"}

(* handle.includes(c) *)
Includes(handle, c) ==
    CASE c = "n" -> handle \in {"n", "ne", "nw"}
      [] c = "s" -> handle \in {"s", "se", "sw"}
      [] c = "e" -> handle \in {"e", "ne", "se"}
      [] c = "w" -> handle \in {"w", "nw", "sw"}

Plus(a, b) == IF a = NaN \/ b = NaN THEN NaN ELSE a + b

Minus(a, b) == IF a = NaN \/ b = NaN THEN NaN ELSE a - b

MathMax(a, b) == IF a = NaN \/ b = NaN THEN NaN ELSE IF a >= b THEN a ELSE b

MathMin(a, b) == IF a = NaN \/ b = NaN THEN NaN ELSE IF a <= b THEN a ELSE b

Less(a, b) == a # NaN /\ b # NaN /\ a < b

(* a ratio is NaN when it is 0/0 *)
IsNaNRatio(ratio) == ratio[1] = 0 \/ ratio[2] = 0

(* v * targetRatio *)
TimesRatio(v, ratio) ==
    IF v = NaN \/ IsNaNRatio(ratio) THEN NaN ELSE (v * ratio[1]) \div ratio[2]

(* v / targetRatio *)
OverRatio(v, ratio) ==
    IF v = NaN \/ IsNaNRatio(ratio) THEN NaN ELSE (v * ratio[2]) \div ratio[1]

minSize == 50

(* cropImage.offsetLeft / offsetTop: the image sits at the origin of the
   container the box is positioned in *)
imageLeft == 0

imageTop == 0

(* mousedown on the crop box, not on a handle; with no box in cropState the
   handler throws at the read of cropState.cropBox.x *)
HandleCropBoxMouseDown(clientX, clientY) ==
    /\ modalOpen
    /\ listeners # "none"
    /\ downs < MaxDowns
    /\ downs' = downs + 1
    /\ cropState' =
        IF cropState.cropBox = <<>>
            THEN [cropState EXCEPT !.isMoving = TRUE, !.startX = clientX,
                                   !.startY = clientY]
            ELSE [cropState EXCEPT !.isMoving = TRUE, !.startX = clientX,
                                   !.startY = clientY,
                                   !.startLeft = cropState.cropBox[1].x,
                                   !.startTop = cropState.cropBox[1].y]
    /\ UNCHANGED <<selectedFiles, cropData, currentCarouselIndex,
                   currentCropIndex, cropBox, cropImage, modalOpen,
                   aspectRatio, indicators, previews, rendered, renderPending, ingests,
                   editorLoads, commits, submitPending, opens, listeners,
                   following, formData>>

(* mousedown on a handle: handleHandleMouseDown, and handleCropBoxMouseDown
   on the box returns at once; with no box in cropState the handler throws
   at the read of cropState.cropBox.width *)
HandleHandleMouseDown(handle, clientX, clientY) ==
    /\ modalOpen
    /\ listeners # "none"
    /\ downs < MaxDowns
    /\ handle \in Handles
    /\ downs' = downs + 1
    /\ cropState' =
        IF cropState.cropBox = <<>>
            THEN [cropState EXCEPT !.isResizing = TRUE,
                                   !.resizeHandle = handle,
                                   !.startX = clientX, !.startY = clientY]
            ELSE [cropState EXCEPT !.isResizing = TRUE,
                                   !.resizeHandle = handle,
                                   !.startX = clientX, !.startY = clientY,
                                   !.startWidth = cropState.cropBox[1].width,
                                   !.startHeight = cropState.cropBox[1].height,
                                   !.startLeft = cropState.cropBox[1].x,
                                   !.startTop = cropState.cropBox[1].y]
    /\ UNCHANGED <<selectedFiles, cropData, currentCarouselIndex,
                   currentCropIndex, cropBox, cropImage, modalOpen,
                   aspectRatio, indicators, previews, rendered, renderPending, ingests,
                   editorLoads, commits, submitPending, opens, listeners,
                   following, formData>>

(* Math.max(low, Math.min(v, high)) *)
Clamp(v, low, high) == MathMax(low, MathMin(v, high))

(* the moving branch, were the box not constrained *)
MovedBoxUnclamped(state, deltaX, deltaY) ==
    [state.cropBox[1] EXCEPT !.x = Plus(state.startLeft, deltaX),
                             !.y = Plus(state.startTop, deltaY)]

(* handleMouseMove, the moving branch: the box of cropState after it *)
MovedBox(state, deltaX, deltaY) ==
    LET box == state.cropBox[1]
        maxX == Minus(imageLeft + state.imageWidth, box.width)
        maxY == Minus(imageTop + state.imageHeight, box.height)
    IN  [box EXCEPT !.x = Clamp(Plus(state.startLeft, deltaX), imageLeft, maxX),
                    !.y = Clamp(Plus(state.startTop, deltaY), imageTop, maxY)]

(* handleMouseMove, the resizing branch: the box it computes *)
ResizedBox(state, ratio, deltaX, deltaY) ==
    LET handle == state.resizeHandle
        targetRatio == ResizeRatio(ratio, state.originalAspectRatio)
        horizontal == Includes(handle, "e") \/ Includes(handle, "w")
        vertical == Includes(handle, "s") \/ Includes(handle, "n")
        \* resize based on handle
        width1 == IF Includes(handle, "w")
                    THEN MathMax(minSize, Minus(state.startWidth, deltaX))
                  ELSE IF Includes(handle, "e")
                    THEN MathMax(minSize, Plus(state.startWidth, deltaX))
                  ELSE state.startWidth
        height1 == IF Includes(handle, "n")
                     THEN MathMax(minSize, Minus(state.startHeight, deltaY))
                   ELSE IF Includes(handle, "s")
                     THEN MathMax(minSize, Plus(state.startHeight, deltaY))
                   ELSE state.startHeight
        x1 == IF Includes(handle, "w") THEN Plus(state.startLeft, deltaX)
              ELSE state.startLeft
        y1 == IF Includes(handle, "n") THEN Plus(state.startTop, deltaY)
              ELSE state.startTop
        \* maintain aspect ratio
        height2 == IF horizontal THEN OverRatio(width1, targetRatio) ELSE height1
        width2 == IF ~horizontal /\ vertical THEN TimesRatio(height1, targetRatio)
                  ELSE width1
        \* constrain within image
        imageRight == imageLeft + state.imageWidth
        imageBottom == imageTop + state.imageHeight
        x3 == IF Less(x1, imageLeft) THEN imageLeft ELSE x1
        width3 == IF Less(x1, imageLeft)
                    THEN MathMin(width2, Minus(imageRight, x3)) ELSE width2
        y4 == IF Less(y1, imageTop) THEN imageTop ELSE y1
        height4 == IF Less(y1, imageTop)
                     THEN MathMin(height2, Minus(imageBottom, y4)) ELSE height2
        overRight == Less(imageRight, Plus(x3, width3))
        width5 == IF overRight THEN Minus(imageRight, x3) ELSE width3
        height5 == IF overRight THEN OverRatio(width5, targetRatio) ELSE height4
        overBottom == Less(imageBottom, Plus(y4, height5))
        height6 == IF overBottom THEN Minus(imageBottom, y4) ELSE height5
        width6 == IF overBottom THEN TimesRatio(height6, targetRatio) ELSE width5
    IN  [x |-> x3, y |-> y4, width |-> width6, height |-> height6]

(* mousemove on the document *)
HandleMouseMove(clientX, clientY) ==
    /\ listeners = "all"
    /\ LET deltaX == clientX - cropState.startX
           deltaY == clientY - cropState.startY
       IN  IF ~cropState.isMoving /\ ~cropState.isResizing
             THEN UNCHANGED <<cropState, cropBox>>
           ELSE IF cropState.isMoving
             THEN IF cropState.cropBox = <<>>
                    THEN UNCHANGED <<cropState, cropBox>>
                    ELSE LET box == MovedBox(cropState, deltaX, deltaY)
                         IN  /\ cropBox' = [cropBox EXCEPT
                                                !.x = StyleSet(@, box.x),
                                                !.y = StyleSet(@, box.y)]
                             /\ cropState' = [cropState EXCEPT !.cropBox = <<box>>]
           ELSE LET box == ResizedBox(cropState, aspectRatio, deltaX, deltaY)
                IN  /\ cropBox' = StyleBox(cropBox, box)
                    /\ cropState' =
                        IF cropState.cropBox = <<>> THEN cropState
                        ELSE [cropState EXCEPT !.cropBox = <<box>>]
    /\ UNCHANGED <<selectedFiles, cropData, currentCarouselIndex,
                   currentCropIndex, cropImage, modalOpen, aspectRatio,
                   indicators, previews, rendered, renderPending, ingests, editorLoads, commits,
                   submitPending, opens, listeners, downs, following, formData>>

(* mouseup on the document *)
HandleMouseUp ==
    /\ listeners = "all"
    /\ cropState' = [cropState EXCEPT !.isMoving = FALSE, !.isResizing = FALSE,
                                      !.resizeHandle = NoHandle]
    /\ UNCHANGED <<selectedFiles, cropData, currentCarouselIndex,
                   currentCropIndex, cropBox, cropImage, modalOpen,
                   aspectRatio, indicators, previews, rendered, renderPending, ingests,
                   editorLoads, commits, submitPending, opens, listeners,
                   downs, following, formData>>

----------------------------------------------------------------------------
(* Submission: handleCreatePost and resetPostForm *)

(* formData.append('media', file) *)
WholeFile(file) == [file |-> file, cropped |-> FALSE, rect |-> <<>>]

(* a property of an object read as a number: one the object does not have
   is undefined, and undefined converts to NaN *)
Property(object, name) ==
    IF name \in DOMAIN object THEN object[name] ELSE NaN

(* applyCropToFile(file, cropData): the canvas is given cropData.width x
   cropData.height and drawImage copies the rectangle (cropData.x,
   cropData.y, cropData.width, cropData.height) of the image.  A canvas
   dimension that is NaN becomes 0, drawImage with a NaN argument draws
   nothing, and toBlob of a canvas without area gives null: rect <<>> is a
   file made of no pixel of the image. *)
ApplyCropToFile(file, window) ==
    LET x == Property(window, "x")
        y == Property(window, "y")
        width == Property(window, "width")
        height == Property(window, "height")
    IN  [file |-> file, cropped |-> TRUE,
         rect |-> IF \/ NaN \in {x, y, width, height}
                     \/ width <= 0 \/ height <= 0
                    THEN <<>>
                    ELSE <<[x |-> x, y |-> y, width |-> width,
                            height |-> height]>>]

(* the for-loop of processFiles up to its next await: items without a
   window are appended as they are *)
RECURSIVE AppendMedia(_, _, _)
AppendMedia(files, crop, media) ==
    IF Len(media) < Len(files) /\ ~crop[Len(media)].cropped
        THEN AppendMedia(files, crop,
                         Append(media, WholeFile(files[Len(media) + 1])))
        ELSE media

NoForm == [media |-> <<>>, awaiting |-> <<>>, sent |-> FALSE]

(* processFiles from the media appended so far to its next await, or to
   apiCall('/posts/') *)
ProcessFiles(media) ==
    LET appended == AppendMedia(selectedFiles, cropData, media)
    IN  IF Len(appended) >= Len(selectedFiles)
            THEN /\ formData' = [media |-> appended, awaiting |-> <<>>,
                                 sent |-> TRUE]
                 /\ submitPending' = TRUE
            ELSE /\ formData' =
                        [media |-> appended,
                         awaiting |-> <<[file |-> selectedFiles[Len(appended) + 1],
                                         window |-> cropData[Len(appended)]]>>,
                         sent |-> FALSE]
                 /\ UNCHANGED submitPending

(* handleCreatePost with a schedule chosen: the request is built from the
   list and sent; nothing of the composition is written before the answer.
   Where the request is followed, one is built at a time. *)
HandleCreatePost ==
    /\ ~modalOpen
    /\ IF Len(selectedFiles) = 0
        THEN UNCHANGED <<submitPending, formData>>
        ELSE IF following = 0
            THEN /\ submitPending' = TRUE
                 /\ UNCHANGED formData
        ELSE /\ formData.awaiting = <<>>
             /\ ProcessFiles(<<>>)
    /\ UNCHANGED <<selectedFiles, cropData, currentCarouselIndex,
                   currentCropIndex, cropState, cropBox, cropImage, modalOpen,
                   aspectRatio, indicators, previews, rendered, renderPending,
                   ingests, editorLoads, commits, opens, listeners, downs,
                   following>>

(* the promise of applyCropToFile resolves and processFiles runs on *)
ApplyCropToFileDone ==
    /\ formData.awaiting # <<>>
    /\ ProcessFiles(Append(formData.media,
                           ApplyCropToFile(formData.awaiting[1].file,
                                           formData.awaiting[1].window)))
    /\ UNCHANGED <<selectedFiles, cropData, currentCarouselIndex,
                   currentCropIndex, cropState, cropBox, cropImage, modalOpen,
                   aspectRatio, indicators, previews, rendered, renderPending,
                   ingests, editorLoads, commits, opens, listeners, downs,
                   following>>

(* resetPostForm() *)
ResetPostForm ==
    /\ selectedFiles' = <<>>
    /\ currentCarouselIndex' = 0
    /\ cropData' = [k \in CropKeys |-> NoCrop]
    /\ aspectRatio' = "original"
    /\ indicators' = 0
    /\ rendered' = <<>>
    /\ previews' = {Forget(file, {}) : file \in previews}
    /\ modalOpen' = FALSE
    /\ cropImage' = Forget(cropImage, {})
    /\ editorLoads' = ForgetLoads(editorLoads, {})
    /\ UNCHANGED <<currentCropIndex, cropState, cropBox, renderPending,
                   ingests, commits, opens, listeners, downs, following, formData>>

(* the answer to a request of handleCreatePost arrives.  The button can be
   pressed again while a request is in flight and each press sends a request
   of its own; the state keeps only whether requests may be in flight. *)
SubmitDone(ok) ==
    /\ submitPending
    /\ UNCHANGED submitPending
    /\ IF ok
        THEN ResetPostForm
        ELSE UNCHANGED <<selectedFiles, cropData, currentCarouselIndex,
                         currentCropIndex, cropState, cropBox, cropImage,
                         modalOpen, aspectRatio, indicators, previews, rendered, renderPending,
                         ingests, editorLoads, commits, opens, listeners, downs, following, formData>>

----------------------------------------------------------------------------
(* Specifications *)

(* the page as loaded *)
Loaded ==
    /\ selectedFiles = <<>>
    /\ cropData = [k \in CropKeys |-> NoCrop]
    /\ currentCarouselIndex = 0
    /\ currentCropIndex = Null
    /\ cropState = InitialCropState
    /\ cropBox = NoBox
    /\ cropImage = NoFile
    /\ modalOpen = FALSE
    /\ aspectRatio = "original"
    /\ indicators = 0
    /\ renderPending = FALSE
    /\ ingests = <<>>
    /\ editorLoads = <<>>
    /\ commits = <<>>
    /\ submitPending = FALSE
    /\ opens = 0
    /\ listeners = "none"
    /\ downs = 0
    /\ previews = {}
    /\ rendered = <<>>
    /\ formData = NoForm

(* the state after load; what the page draws and sends is not followed *)
Init == Loaded /\ following = 0

(* the same, the last frame of the preview and the request followed *)
InitFollowing == Loaded /\ following = 1

(* the same, the last MaxFrames frames followed *)
InitFrames == Loaded /\ following = MaxFrames

(* selections of the file chooser while editing: 0 .. MaxBatch images of two
   shapes in turn, and one selection that is over the limit *)
AltBatch(n, wideFirst) ==
    [k \in 1 .. n |-> IF (k % 2 = 1) = wideFirst THEN Wide ELSE Square]

UniformBatch(n, template) == [k \in 1 .. n |-> template]

EditBatches ==
    {AltBatch(n, TRUE) : n \in 0 .. MaxBatch}
    \cup {UniformBatch(MaxFiles + 1, Square)}

Compose ==
    \/ \E index \in Thumbnails : MoveMediaUp(index)
    \/ \E index \in Thumbnails : MoveMediaDown(index)
    \/ \E index \in Thumbnails : MoveMediaToFirst(index)
    \/ \E index \in Thumbnails : MoveMediaToLast(index)
    \/ \E index \in Thumbnails : RemoveMedia(index)
    \/ RenderTimer
    \/ \E direction \in {-1, 1} : NavigateCarousel(direction)
    \/ \E idx \in 0 .. (indicators - 1) : IndicatorClick(idx)
    \/ HandleCreatePost
    \/ \E ok \in BOOLEAN : SubmitDone(ok)
    \/ \E k \in 1 .. Len(ingests) : ProcessImageDone(k)

(* The composition with the crop editor.  The aspect-ratio select stays at
   'original', the value the form gives it. *)
Next ==
    \/ \E batch \in EditBatches : HandleMediaSelect(NewFiles(batch))
    \/ Compose
    \/ \E index \in Thumbnails : OpenCropModal(index)
    \/ \E k \in 1 .. Len(editorLoads) : EditorImageRead(k)
    \/ \E k \in 1 .. Len(editorLoads) : EditorImageShown(k)
    \/ ApplyCrop
    \/ \E k \in 1 .. Len(commits) : ApplyCropDone(k)
    \/ CloseCropModal

Spec == Init /\ [][Next]_vars

(* The composition at the limit of 20: selections of MaxFiles and of
   MaxFiles + 1 files besides the small ones, the aspect-ratio select, and no
   crop editor.  The files of the large selections are videos, which
   handleMediaSelect pushes without an await, and are not told apart. *)
Video == [type |-> "video/mp4", size |-> MiB, width |-> 0, height |-> 0]

LimitBatches ==
    {UniformBatch(n, Video) : n \in {MaxFiles, MaxFiles + 1}}

NextLimit ==
    \/ \E batch \in EditBatches : HandleMediaSelect(NewFiles(batch))
    \/ \E batch \in LimitBatches : HandleMediaSelect(Clones(batch))
    \/ Compose
    \/ \E ratio \in Ratios : SelectAspectRatio(ratio)

SpecLimit == Init /\ [][NextLimit]_vars

----------------------------------------------------------------------------
(* Properties of the composition *)

(* new is old followed by n more items *)
IsAppend(old, new, n) ==
    /\ Len(new) = Len(old) + n
    /\ SubSeq(new, 1, Len(old)) = old

(* what a window says, apart from the file it was made on *)
Geometry(window) ==
    <<window.cropped, window.centerX, window.centerY, window.boxWidth,
      window.boxHeight>>

(* the cursor references an item *)
CursorOnItem == currentCarouselIndex \in Thumbnails

(* a step of one of the four reorder operations *)
MoveStep ==
    \E index \in Thumbnails :
        \/ MoveMediaUp(index)
        \/ MoveMediaDown(index)
        \/ MoveMediaToFirst(index)
        \/ MoveMediaToLast(index)

(* C1: when handleMediaSelect accepts a batch, the list afterwards is the
   list before followed by the selected files, in selection order.  The list
   is installed by the call itself when no file needs an await, and by the
   completion of its last processImage otherwise. *)
C1_SelectionAppends ==
    [][ /\ \A batch \in EditBatches :
              (HandleMediaSelect(NewFiles(batch)) /\ ingests' = ingests)
                  => IsAppend(selectedFiles, selectedFiles', Len(batch))
        /\ \A k \in 1 .. Len(ingests) :
              (ProcessImageDone(k) /\ Len(ingests') < Len(ingests))
                  => IsAppend(selectedFiles, selectedFiles',
                              Len(ingests[k].files)) ]_vars

(* C2: a selection that would bring the total (items in the list plus files
   selected) above 20 is rejected as a whole: the list, the crop store and
   the cursor stay as they were, both when the call returns and when its
   last processImage completes. *)
C2_RejectsOverTotal ==
    [][ /\ \A files \in {NewFiles(batch) : batch \in EditBatches}
                         \cup {Clones(batch) : batch \in LimitBatches} :
              (Len(selectedFiles) + Len(files) > MaxFiles
               /\ HandleMediaSelect(files))
                  => UNCHANGED <<selectedFiles, cropData,
                                 currentCarouselIndex>>
        /\ \A k \in 1 .. Len(ingests) :
              (Len(selectedFiles) + Len(ingests[k].files) > MaxFiles
               /\ ProcessImageDone(k))
                  => UNCHANGED <<selectedFiles, cropData,
                                 currentCarouselIndex>> ]_vars

(* C3: in every reachable state the composition holds at most 20 items. *)
C3_AtMostMaxFiles == Len(selectedFiles) <= MaxFiles

(* C3, the case: a composition of exactly 20 items that has been reordered
   and submitted *)
C3_Witness ==
    /\ Len(selectedFiles) = MaxFiles
    /\ renderPending
    /\ submitPending

(* every item of the list before the step is in the list after it, with the
   window it had, or with none if it had none *)
ItemsKeepCrops ==
    \A i \in 1 .. Len(selectedFiles) :
        \E j \in 1 .. Len(selectedFiles') :
            /\ selectedFiles'[j] = selectedFiles[i]
            /\ Geometry(cropData'[j - 1]) = Geometry(cropData[i - 1])

(* C4: after each of the four move operations, at any index of any list with
   any items cropped, every item that had a crop window has the same window
   and every item that had none has none. *)
C4_ReorderKeepsCrops == [][ MoveStep => ItemsKeepCrops ]_vars

(* C5: removeMedia(i) re-keys the crop store as it re-indexes the list:
   every surviving item keeps the window it had, the items above i keyed one
   lower. *)
C5_RemoveRekeysCrops ==
    [][ \A index \in Thumbnails :
            RemoveMedia(index) =>
                \A i \in 1 .. Len(selectedFiles) :
                    i # index + 1 =>
                        LET j == IF i > index + 1 THEN i - 1 ELSE i
                        IN  Geometry(cropData'[j - 1])
                                = Geometry(cropData[i - 1]) ]_vars

(* C6: in every reachable state an item has a crop window only if that
   window was committed on that very item. *)
C6_CropsMadeOnTheirItem ==
    \A i \in 1 .. Len(selectedFiles) :
        cropData[i - 1].cropped
            => cropData[i - 1].madeOn = selectedFiles[i].id

(* C7: after each of the four move operations a cursor that referenced an
   item references the same item, and when that item is the one moved the
   cursor is the item's new position. *)
C7_MoveKeepsCursorItem ==
    [][ \A index \in Thumbnails :
            LET lastIndex == Len(selectedFiles) - 1
                same == /\ currentCarouselIndex' \in 0 .. lastIndex
                        /\ selectedFiles'[currentCarouselIndex' + 1]
                               = selectedFiles[currentCarouselIndex + 1]
                moved == currentCarouselIndex = index
            IN  CursorOnItem =>
                  /\ MoveMediaUp(index) =>
                        same /\ (moved => currentCarouselIndex' = index - 1)
                  /\ MoveMediaDown(index) =>
                        same /\ (moved => currentCarouselIndex' = index + 1)
                  /\ MoveMediaToFirst(index) =>
                        same /\ (moved => currentCarouselIndex' = 0)
                  /\ MoveMediaToLast(index) =>
                        same /\ (moved => currentCarouselIndex' = lastIndex)
      ]_vars

(* C7, the case: the first file of a selection of three has been moved to the
   end with the cursor on it *)
C7_Witness ==
    /\ renderPending
    /\ Len(selectedFiles) = 3
    /\ selectedFiles[3].id = 1
    /\ selectedFiles[1].id = 2
    /\ currentCarouselIndex = 2

(* C8: removeMedia(i) of an item other than the one under the cursor leaves
   the cursor on the item it referenced. *)
C8_RemoveKeepsCursorItem ==
    [][ \A index \in Thumbnails :
            (RemoveMedia(index) /\ CursorOnItem
             /\ currentCarouselIndex # index)
                => /\ currentCarouselIndex' \in 0 .. (Len(selectedFiles') - 1)
                   /\ selectedFiles'[currentCarouselIndex' + 1]
                          = selectedFiles[currentCarouselIndex + 1] ]_vars

(* C9: in every reachable state with a list that is not empty,
   0 <= cursor < number of items. *)
C9_CursorInRange == Len(selectedFiles) > 0 => CursorOnItem

(* the window lies inside an image of the given natural size *)
WindowInside(window, naturalWidth, naturalHeight) ==
    /\ window.centerX # NaN
    /\ window.boxWidth <= naturalWidth
    /\ window.boxHeight <= naturalHeight
    /\ 2 * window.centerX - window.boxWidth >= 0
    /\ 2 * window.centerX + window.boxWidth <= 2 * naturalWidth
    /\ 2 * window.centerY - window.boxHeight >= 0
    /\ 2 * window.centerY + window.boxHeight <= 2 * naturalHeight

(* C10: in every reachable state every stored window of an item lies inside
   that item's image, in source pixels. *)
C10_WindowsInsideImage ==
    \A i \in 1 .. Len(selectedFiles) :
        cropData[i - 1].cropped
            => WindowInside(cropData[i - 1], selectedFiles[i].width,
                            selectedFiles[i].height)

----------------------------------------------------------------------------
(* Ingest on its own: selections of files of many sizes and shapes, one
   selection at a time, each awaited processImage ending in every way it
   can. *)

Sides == {1, 540, 1080, 1081, 2160}

(* images above the threshold, of every shape over Sides *)
BigImages ==
    {[type |-> "image/jpeg", size |-> 9 * MiB, width |-> w, height |-> h] :
        w \in Sides, h \in Sides}

Oversized ==
    [type |-> "image/jpeg", size |-> 9 * MiB, width |-> 2160, height |-> 1080]

(* an image of exactly the threshold, larger than 1080 *)
AtLimit ==
    [type |-> "image/png", size |-> MAX_FILE_SIZE, width |-> 2160,
     height |-> 1080]

BigVideo == [type |-> "video/mp4", size |-> 9 * MiB, width |-> 0, height |-> 0]

MixedFiles == {Oversized, AtLimit, BigVideo}

IngestBatches ==
    {<<file>> : file \in BigImages \cup {Wide}}
    \cup UNION {[1 .. n -> MixedFiles] : n \in 0 .. MaxBatch}

NextIngest ==
    \/ /\ ingests = <<>>
       /\ \E batch \in IngestBatches : HandleMediaSelect(NewFiles(batch))
    \/ \E k \in 1 .. Len(ingests) : ProcessImageDone(k)

SpecIngest == Init /\ [][NextIngest]_vars

----------------------------------------------------------------------------
(* The crop controller on its own: one selection, the editor opened on one
   of its images under either ratio, and the pointer pressed, moved and
   released at every combination of a few positions. *)

Tall == [type |-> "image/png", size |-> 2 * MiB, width |-> 200, height |-> 400]

PointerBatches == {<<Wide, Tall>>}

ClientXs == {0, 40, 300}

ClientYs == {0, 40, 300}

NextPointer ==
    \/ /\ selectedFiles = <<>>
       /\ \E batch \in PointerBatches : HandleMediaSelect(NewFiles(batch))
    \/ \E k \in 1 .. Len(ingests) : ProcessImageDone(k)
    \/ \E ratio \in Ratios : SelectAspectRatio(ratio)
    \/ \E index \in Thumbnails : OpenCropModal(index)
    \/ \E k \in 1 .. Len(editorLoads) : EditorImageRead(k)
    \/ \E k \in 1 .. Len(editorLoads) : EditorImageShown(k)
    \/ \E clientX \in ClientXs, clientY \in ClientYs :
          HandleCropBoxMouseDown(clientX, clientY)
    \/ \E handle \in Handles, clientX \in ClientXs, clientY \in ClientYs :
          HandleHandleMouseDown(handle, clientX, clientY)
    \/ \E clientX \in ClientXs, clientY \in ClientYs :
          HandleMouseMove(clientX, clientY)
    \/ HandleMouseUp
    \/ CloseCropModal

SpecPointer == Init /\ [][NextPointer]_vars

(* the file in the awaited file's place after a step of ProcessImageStep(k,
   out): in the list if the step installed it, in the call's processedFiles
   otherwise *)
Landed(k) ==
    LET p == Len(ingests[k].processed) + 1
    IN  IF Len(ingests') < Len(ingests) THEN selectedFiles'[p]
        ELSE ingests'[k].processed[p]

(* selections with no image in them: handleMediaSelect installs them
   before it returns *)
SelectionsOfIngest ==
    {NewFiles(batch) :
        batch \in {b \in IngestBatches :
                      \A q \in 1 .. Len(b) : ~IsImage(b[q])}}

(* the selections whose list the step installs: the one of a call that
   resumes for the last time, or one that is installed at once *)
Installed ==
    {ingests[k].files :
        k \in {j \in 1 .. Len(ingests) :
                  ProcessImageDone(j) /\ Len(ingests') < Len(ingests)}}
    \cup {files \in SelectionsOfIngest :
            /\ HandleMediaSelect(files)
            /\ ingests' = ingests
            /\ Len(files) <= MaxFiles}

(* w2 x h2 is w x h capped at maxDimension on its longer side, the other
   side scaled with it to less than a pixel, and w x h itself when that is
   within maxDimension *)
ResizedShape(w, h, w2, h2) ==
    /\ Max(w2, h2) <= maxDimension
    /\ (w <= maxDimension /\ h <= maxDimension) => (w2 = w /\ h2 = h)
    /\ w2 * h - h2 * w < Max(w, h)
    /\ h2 * w - w2 * h < Max(w, h)

(* C11: for every decoded width and height, the dimensions resizeImage
   gives the image have the longer side at most 1080 and the proportions of
   the original up to rounding; dimensions within 1080 on both axes are
   left as they are. *)
C11_ResizeKeepsShape ==
    [][ \A k \in 1 .. Len(ingests) :
          \A out \in ProcessImageOutcomes(Awaited(k)) :
            (out.why = "resized" /\ ProcessImageStep(k, out))
                => ResizedShape(Awaited(k).width, Awaited(k).height,
                                Landed(k).width, Landed(k).height) ]_vars

(* C11, the case: a 540 x 2160 image has been resized into the list, as
   270 x 1080 *)
C11_Witness ==
    /\ Len(selectedFiles) = 1
    /\ selectedFiles[1].size \in ResizedSizes
    /\ selectedFiles[1].width = 270
    /\ selectedFiles[1].height = 1080

(* C12: ingest leaves a payload untouched unless it is an image larger than
   8 MiB: what is not an image and every image of at most 8 MiB, exactly
   8 MiB included, enters the list as the very file that was selected. *)
C12_PassThrough ==
    [][ \A files \in Installed :
            \A q \in 1 .. Len(files) :
              (~IsImage(files[q]) \/ files[q].size <= 8 * 1024 * 1024)
                  => selectedFiles'[q] = files[q] ]_vars

(* C12, the case: an image of exactly 8 MiB and a video above 8 MiB are in
   the list with an image that was resized *)
C12_Witness ==
    /\ Len(selectedFiles) = 3
    /\ selectedFiles[1] = AtLimit @@ [id |-> 1]
    /\ selectedFiles[2].size \in ResizedSizes
    /\ selectedFiles[3] = BigVideo @@ [id |-> 3]

(* C13: when reading or decoding an oversized image fails, the original
   file takes its place and the rest of the batch is still ingested: an
   accepted batch of n files yields n items in selection order. *)
C13_FailureFallsBack ==
    [][ /\ \A k \in 1 .. Len(ingests) :
              \A out \in ProcessImageOutcomes(Awaited(k)) :
                (out.why = "decode" /\ ProcessImageStep(k, out))
                    => Landed(k) = Awaited(k)
        /\ \A files \in Installed :
                /\ Len(selectedFiles') = Len(files)
                /\ \A q \in 1 .. Len(files) :
                      selectedFiles'[q].id = files[q].id ]_vars

(* C13, the case: the second of three files is an oversized image that is
   in the list as it was selected, between the other two *)
C13_Witness ==
    /\ Len(selectedFiles) = 3
    /\ selectedFiles[1].size \in ResizedSizes
    /\ selectedFiles[2] = Oversized @@ [id |-> 2]
    /\ selectedFiles[3] = BigVideo @@ [id |-> 3]

(* C14: when re-encoding the downscaled image yields no payload, the
   selection ends with a failure: no payload is put in the file's place,
   nothing is installed and the call does not go on. *)
C14_EncodeFailureIsReturned ==
    [][ \A k \in 1 .. Len(ingests) :
          \A out \in ProcessImageOutcomes(Awaited(k)) :
            (out.why = "encode" /\ ProcessImageStep(k, out))
                => /\ selectedFiles' = selectedFiles
                   /\ ingests' = RemoveAt(ingests, k) ]_vars

(* the box lies within the image as cropState has measured it, all four
   edges, and has no negative or undefined side *)
InsideImage(box, state) ==
    /\ box.x # NaN /\ box.y # NaN /\ box.width # NaN /\ box.height # NaN
    /\ box.width >= 0
    /\ box.height >= 0
    /\ box.x >= imageLeft
    /\ box.y >= imageTop
    /\ box.x + box.width <= imageLeft + state.imageWidth
    /\ box.y + box.height <= imageTop + state.imageHeight

(* the step is a mousemove handled by the moving branch *)
MoveStepOfBox ==
    /\ cropState.isMoving
    /\ cropState.cropBox # <<>>
    /\ \E clientX \in ClientXs, clientY \in ClientYs :
          HandleMouseMove(clientX, clientY)

(* the step is a mousemove handled by the resizing branch *)
ResizeStepOfBox ==
    /\ cropState.isResizing
    /\ ~cropState.isMoving
    /\ cropState.cropBox # <<>>
    /\ \E clientX \in ClientXs, clientY \in ClientYs :
          HandleMouseMove(clientX, clientY)

(* the box as it was at the last mousedown of a move: the moving branch
   changes x and y only, and the mousedown recorded them *)
BoxAtDown ==
    [cropState.cropBox[1] EXCEPT !.x = cropState.startLeft,
                                 !.y = cropState.startTop]

(* w / h is the ratio, to the pixel *)
HasRatio(w, h, ratio) ==
    /\ w # NaN /\ h # NaN /\ ~IsNaNRatio(ratio)
    /\ w * ratio[2] - h * ratio[1] < Max(ratio[1], ratio[2])
    /\ h * ratio[1] - w * ratio[2] < Max(ratio[1], ratio[2])

(* C15: the crop controller is never moving and resizing at once: whatever
   the sequence of mousedown on the box, mousedown on a handle, mousemove
   and mouseup, isMoving and isResizing are never both true. *)
C15_OneStateAtATime == ~(cropState.isMoving /\ cropState.isResizing)

(* C16: while moving, after every mousemove the crop box has the width and
   height it had at mousedown and all four of its edges lie within the
   image, provided the box was inside the image at mousedown; the element
   is styled to the same place. *)
C16_MoveStaysInside ==
    [][ (MoveStepOfBox /\ InsideImage(BoxAtDown, cropState))
            => /\ cropState'.cropBox[1].width = cropState.cropBox[1].width
               /\ cropState'.cropBox[1].height = cropState.cropBox[1].height
               /\ InsideImage(cropState'.cropBox[1], cropState')
               /\ cropBox'.x = cropState'.cropBox[1].x
               /\ cropBox'.y = cropState'.cropBox[1].y
               /\ cropBox'.width = cropBox.width
               /\ cropBox'.height = cropBox.height ]_vars

(* C16, the case: a box smaller than the image, dragged from the left edge
   of the image, has been stopped at the right edge, and one dragged from
   the top has been stopped at the bottom *)
C16_Witness ==
    /\ cropState.isMoving
    /\ ~cropState.isResizing
    /\ cropState.cropBox # <<>>
    /\ cropState.startLeft = imageLeft
    /\ cropState.startTop = imageTop
    /\ cropState.cropBox[1].width > 0
    /\ cropState.cropBox[1].x > imageLeft
    /\ cropState.cropBox[1].y > imageTop
    /\ cropState.cropBox[1].x + cropState.cropBox[1].width
            = imageLeft + cropState.imageWidth
    /\ cropState.cropBox[1].y + cropState.cropBox[1].height
            = imageTop + cropState.imageHeight

(* C17: while resizing with any handle, after every mousemove all four
   edges of the crop box lie within the image, for any pointer delta and
   either ratio. *)
C17_ResizeStaysInside ==
    [][ ResizeStepOfBox => InsideImage(cropState'.cropBox[1], cropState') ]_vars

(* C18: while resizing, after every mousemove the width of the crop box
   divided by its height is the active target ratio, also in the steps
   where the box was clamped to an edge of the image. *)
C18_ResizeKeepsRatio ==
    [][ ResizeStepOfBox
            => HasRatio(cropState'.cropBox[1].width,
                        cropState'.cropBox[1].height,
                        IF aspectRatio = "original"
                            THEN cropState.originalAspectRatio
                            ELSE RatioValue(aspectRatio)) ]_vars

(* C19: after every resize step the width and the height of the crop box
   are both at least minSize, 50 pixels. *)
C19_ResizeKeepsMinimum ==
    [][ ResizeStepOfBox
            => /\ cropState'.cropBox[1].width >= 50
               /\ cropState'.cropBox[1].height >= 50 ]_vars

----------------------------------------------------------------------------
(* The previews of cropped items: a selection of two images, windows
   committed in the editor, an item removed, the ratio switched; every
   render recomputes the rectangle it draws from the stored window. *)

RecomputeBatches == {<<Wide, Square>>}

RecomputeRatios == {"original", "1:1", "4:5", "16:9"}

NextRecompute ==
    \/ /\ selectedFiles = <<>>
       /\ \E batch \in RecomputeBatches : HandleMediaSelect(NewFiles(batch))
    \/ \E k \in 1 .. Len(ingests) : ProcessImageDone(k)
    \/ \E ratio \in RecomputeRatios : SelectAspectRatio(ratio)
    \/ \E index \in Thumbnails : OpenCropModal(index)
    \/ \E k \in 1 .. Len(editorLoads) : EditorImageRead(k)
    \/ \E k \in 1 .. Len(editorLoads) : EditorImageShown(k)
    \/ ApplyCrop
    \/ \E k \in 1 .. Len(commits) : ApplyCropDone(k)
    \/ CloseCropModal
    \/ \E index \in Thumbnails : RemoveMedia(index)
    \/ \E index \in Thumbnails : MoveMediaToLast(index)

SpecRecompute == Init /\ [][NextRecompute]_vars

(* the rectangle as a window: its centre and its size *)
AsWindow(box) ==
    [centerX |-> (2 * box.x + box.width) \div 2,
     centerY |-> (2 * box.y + box.height) \div 2,
     boxWidth |-> box.width, boxHeight |-> box.height]

Near(a, b) == a - b <= 1 /\ b - a <= 1

(* the same rectangle, to the pixel *)
SameBox(a, b) ==
    /\ Near(a.x, b.x)
    /\ Near(a.y, b.y)
    /\ Near(a.width, b.width)
    /\ Near(a.height, b.height)

(* C20: recomputing the effective crop box for the ratio in force is
   idempotent: for every item of the list that has a window, the rectangle
   recomputed from the rectangle a first recomputation gave, on the same
   image and for the same ratio, is that rectangle. *)
C20_RecomputeIdempotent ==
    \A i \in 1 .. Len(selectedFiles) :
        (cropData[i - 1].cropped /\ cropData[i - 1].centerX # NaN
            /\ IsImage(selectedFiles[i]))
        => LET once == EffectiveCropBox(cropData[i - 1],
                            selectedFiles[i].width, selectedFiles[i].height,
                            aspectRatio)
               twice == EffectiveCropBox(AsWindow(once),
                            selectedFiles[i].width, selectedFiles[i].height,
                            aspectRatio)
           IN  SameBox(once, twice)

----------------------------------------------------------------------------
(* Windows of boxes the user has placed: one selection, the editor opened
   under any ratio, the box dragged, the crop committed, the ratio
   switched. *)

NextWindow ==
    \/ /\ selectedFiles = <<>>
       /\ \E batch \in RecomputeBatches : HandleMediaSelect(NewFiles(batch))
    \/ \E k \in 1 .. Len(ingests) : ProcessImageDone(k)
    \/ \E ratio \in RecomputeRatios : SelectAspectRatio(ratio)
    \/ \E index \in Thumbnails : OpenCropModal(index)
    \/ \E k \in 1 .. Len(editorLoads) : EditorImageRead(k)
    \/ \E k \in 1 .. Len(editorLoads) : EditorImageShown(k)
    \/ \E clientX \in ClientXs, clientY \in ClientYs :
          HandleCropBoxMouseDown(clientX, clientY)
    \/ \E clientX \in ClientXs, clientY \in ClientYs :
          HandleMouseMove(clientX, clientY)
    \/ HandleMouseUp
    \/ ApplyCrop
    \/ \E k \in 1 .. Len(commits) : ApplyCropDone(k)
    \/ CloseCropModal

SpecWindow == Init /\ [][NextWindow]_vars

(* the items of the list that have a window with numbers in it, as
   positions *)
Windowed ==
    {i \in 1 .. Len(selectedFiles) :
        /\ IsImage(selectedFiles[i])
        /\ cropData[i - 1].cropped
        /\ cropData[i - 1].centerX # NaN}

(* the rectangle drawn for item i under the ratio *)
Drawn(i, ratio) ==
    EffectiveCropBox(cropData[i - 1], selectedFiles[i].width,
                     selectedFiles[i].height, ratio)

(* the rectangle has its centre at the stored centre, to the pixel *)
CentredOn(box, window) ==
    /\ Near((2 * box.x + box.width) \div 2, window.centerX)
    /\ Near((2 * box.y + box.height) \div 2, window.centerY)

(* C21: for every stored window that lies inside its image and every
   target ratio, the rectangle used for rendering is centred at the stored
   (centerX, centerY). *)
C21_CentreKept ==
    \A i \in Windowed :
        WindowInside(cropData[i - 1], selectedFiles[i].width,
                     selectedFiles[i].height)
            => \A ratio \in RecomputeRatios :
                    CentredOn(Drawn(i, ratio), cropData[i - 1])

(* C22: for a stored window no wider and no higher than its image and any
   target ratio r, the rectangle drawn keeps the stored height with width =
   height * r when that width fits the image, and otherwise keeps the
   stored width with height = width / r; in every case it has ratio r and
   lies inside the image. *)
C22_HeightFirstThenWidth ==
    \A i \in Windowed : \A ratio \in RecomputeRatios :
        LET window == cropData[i - 1]
            imgWidth == selectedFiles[i].width
            imgHeight == selectedFiles[i].height
            r == PreviewRatio(ratio, imgWidth, imgHeight)
            box == Drawn(i, ratio)
        IN  (/\ window.boxWidth >= 0 /\ window.boxWidth <= imgWidth
             /\ window.boxHeight >= 0 /\ window.boxHeight <= imgHeight)
            => /\ IF window.boxHeight * r[1] <= imgWidth * r[2]
                    THEN /\ box.height = window.boxHeight
                         /\ box.width = (window.boxHeight * r[1]) \div r[2]
                    ELSE /\ box.width = window.boxWidth
                         /\ box.height = (window.boxWidth * r[2]) \div r[1]
               /\ HasRatio(box.width, box.height, r)
               /\ box.x >= 0
               /\ box.y >= 0
               /\ box.x + box.width <= imgWidth
               /\ box.y + box.height <= imgHeight

(* C22, the case: under 16:9 a 100 x 100 window of a 100 x 100 image is
   drawn with the stored width and a smaller height, and under 4:5 with the
   stored height and a smaller width *)
C22_Witness ==
    \E i \in Windowed :
        /\ cropData[i - 1].boxWidth = selectedFiles[i].width
        /\ cropData[i - 1].boxHeight = selectedFiles[i].height
        /\ aspectRatio = "16:9"
        /\ Drawn(i, "16:9").width = cropData[i - 1].boxWidth
        /\ Drawn(i, "16:9").height < cropData[i - 1].boxHeight
        /\ Drawn(i, "4:5").height = cropData[i - 1].boxHeight
        /\ Drawn(i, "4:5").width < cropData[i - 1].boxWidth

(* C25: navigateCarousel(+1) and navigateCarousel(-1) on a list of two or
   more items set the cursor to (cursor + 1) mod length and (cursor - 1) mod
   length; on a list of fewer than two items nothing changes. *)
C25_NavigateIsModular ==
    [][\A direction \in {-1, 1} :
          NavigateCarousel(direction)
              => IF Len(selectedFiles) >= 2
                  THEN currentCarouselIndex' =
                           (currentCarouselIndex + direction)
                               % Len(selectedFiles)
                  ELSE UNCHANGED <<selectedFiles, cropData,
                                   currentCarouselIndex>>]_vars

(* the sequence without its element at position pos *)
Others(s, pos) == SubSeq(s, 1, pos - 1) \o SubSeq(s, pos + 1, Len(s))

(* t holds the elements of s, each as often as s does *)
IsPermutation(s, t) ==
    /\ Len(s) = Len(t)
    /\ \A x \in {s[k] : k \in 1 .. Len(s)} :
           Cardinality({k \in 1 .. Len(s) : s[k] = x})
               = Cardinality({k \in 1 .. Len(t) : t[k] = x})

(* C26: moveMediaUp / moveMediaDown exchange the item with its neighbour,
   moveMediaToFirst / moveMediaToLast put it first / last and keep the
   relative order of all others; none of them acts at its boundary (up and
   to-first on index 0, down and to-last on the last index), and the list
   after a move is a permutation of the list before. *)
C26_MovesPermute ==
    [][\A index \in Thumbnails :
          LET pos == index + 1
              last == Len(selectedFiles)
          IN  /\ MoveMediaUp(index)
                    => /\ index > 0
                       /\ selectedFiles'[pos - 1] = selectedFiles[pos]
                       /\ selectedFiles'[pos] = selectedFiles[pos - 1]
                       /\ \A k \in (1 .. last) \ {pos - 1, pos} :
                              selectedFiles'[k] = selectedFiles[k]
              /\ MoveMediaDown(index)
                    => /\ pos < last
                       /\ selectedFiles'[pos + 1] = selectedFiles[pos]
                       /\ selectedFiles'[pos] = selectedFiles[pos + 1]
                       /\ \A k \in (1 .. last) \ {pos, pos + 1} :
                              selectedFiles'[k] = selectedFiles[k]
              /\ MoveMediaToFirst(index)
                    => /\ index > 0
                       /\ selectedFiles'[1] = selectedFiles[pos]
                       /\ Others(selectedFiles', 1) = Others(selectedFiles, pos)
              /\ MoveMediaToLast(index)
                    => /\ pos < last
                       /\ selectedFiles'[last] = selectedFiles[pos]
                       /\ Others(selectedFiles', last)
                              = Others(selectedFiles, pos)
              /\ (\/ MoveMediaUp(index) \/ MoveMediaDown(index)
                  \/ MoveMediaToFirst(index) \/ MoveMediaToLast(index))
                    => IsPermutation(selectedFiles, selectedFiles')]_vars

(* C26, the case: the first of three items has been moved to the end and
   the other two have kept their order *)
C26_Witness ==
    /\ Len(selectedFiles) = 3
    /\ renderPending
    /\ [k \in 1 .. 3 |-> selectedFiles[k].id] = <<2, 3, 1>>

----------------------------------------------------------------------------
(* The crop editor opened, closed and opened again on one image, with the
   pointer and the commit button used at any moment. *)

ReopenBatches == {<<Wide>>}

NextReopen ==
    \/ /\ selectedFiles = <<>>
       /\ \E batch \in ReopenBatches : HandleMediaSelect(NewFiles(batch))
    \/ \E k \in 1 .. Len(ingests) : ProcessImageDone(k)
    \/ \E index \in Thumbnails : OpenCropModalWithin(MaxReopens, index)
    \/ \E k \in 1 .. Len(editorLoads) : EditorImageRead(k)
    \/ \E k \in 1 .. Len(editorLoads) : EditorImageShown(k)
    \/ \E clientX \in {0, 40}, clientY \in {0} :
          HandleCropBoxMouseDown(clientX, clientY)
    \/ \E handle \in Handles, clientX \in {0, 40}, clientY \in {0} :
          HandleHandleMouseDown(handle, clientX, clientY)
    \/ \E clientX \in {0, 40}, clientY \in {0} :
          HandleMouseMove(clientX, clientY)
    \/ HandleMouseUp
    \/ ApplyCrop
    \/ \E k \in 1 .. Len(commits) : ApplyCropDone(k)
    \/ CloseCropModal

SpecReopen == Init /\ [][NextReopen]_vars

(* the editor is open and its image has not been measured: cropState has
   no box *)
Undecoded == modalOpen /\ cropState.cropBox = <<>>

(* a step of one of the crop operations: the commit button, a press on the
   box or on a handle, a pointer move *)
CropOperation ==
    \/ ApplyCrop
    \/ \E clientX \in {0, 40}, clientY \in {0} :
          \/ HandleCropBoxMouseDown(clientX, clientY)
          \/ HandleMouseMove(clientX, clientY)
          \/ \E handle \in Handles :
                HandleHandleMouseDown(handle, clientX, clientY)

(* C29: a crop operation invoked before the editor image has been decoded
   changes neither the crop store nor the controller state (and so has not
   stopped half-way on an error), also in an editor that has been closed and
   opened again. *)
C29_NoOpBeforeDecode ==
    [][(Undecoded /\ CropOperation)
          => UNCHANGED <<cropData, cropState, cropBox, commits>>]_vars

----------------------------------------------------------------------------
(* Two selections in flight: a first selection of one image, and further
   selections made while a call is suspended.  The carousel can be
   navigated between them. *)

OlderBatches == {<<Oversized>>}

NewerBatches == {<<Square, Tall>>, <<Tall, Oversized>>}

NextRace ==
    \/ /\ selectedFiles = <<>>
       /\ ingests = <<>>
       /\ \E batch \in OlderBatches :
             HandleMediaSelectWithin(MaxRacing, NewFiles(batch))
    \/ /\ ingests # <<>>
       /\ \E batch \in NewerBatches :
             HandleMediaSelectWithin(MaxRacing, NewFiles(batch))
    \/ \E k \in 1 .. Len(ingests) : ProcessImageDone(k)
    \/ \E direction \in {-1, 1} : NavigateCarousel(direction)

SpecRace == Init /\ [][NextRace]_vars

(* list is what a handleMediaSelect makes of the selection files: every
   image replaced by one of the files processImage can return for it *)
IsProcessingOf(list, files) ==
    /\ Len(list) = Len(files)
    /\ \A q \in 1 .. Len(files) :
           IF IsImage(files[q])
               THEN \E out \in ProcessImageOutcomes(files[q]) :
                       list[q] = out.file
               ELSE list[q] = files[q]

(* C28: a pending ingest is never cancelled.  A selection made while
   another is being processed leaves the suspended calls as they are, a
   call leaves the pending ones only by running to its end, and at its end
   it installs its own batch over whatever the list holds: the list ends up
   holding the batch whose processing finished last, the older one
   included. *)
C28_NoCancellation ==
    [][/\ Len(ingests') > Len(ingests)
            => SubSeq(ingests', 1, Len(ingests)) = ingests
       /\ Len(ingests') < Len(ingests)
            => \E k \in 1 .. Len(ingests) :
                  /\ ingests' = RemoveAt(ingests, k)
                  /\ IsProcessingOf(selectedFiles', ingests[k].files)
       /\ Len(ingests') = Len(ingests)
            => \A k \in 1 .. Len(ingests) :
                  ingests'[k].files = ingests[k].files]_vars

(* C28, the case: the older selection, of one image, has finished after
   the newer one, of two, and holds the list; the cursor was moved to the
   second item of the newer batch in between *)
C28_Witness ==
    /\ ingests = <<>>
    /\ \E batch \in OlderBatches :
           IsProcessingOf(selectedFiles, NewFiles(batch))
    /\ currentCarouselIndex = 1

----------------------------------------------------------------------------
(* The ratio given as "W:H" and as a decimal: one selection, the select set
   to either form, the editor opened and a handle dragged. *)

RatioTexts == {"original", "4:5", "0.8", "1:1", "1"}

NextRatio ==
    \/ /\ selectedFiles = <<>>
       /\ \E batch \in PointerBatches : HandleMediaSelect(NewFiles(batch))
    \/ \E k \in 1 .. Len(ingests) : ProcessImageDone(k)
    \/ \E ratio \in RatioTexts : SelectAspectRatio(ratio)
    \/ \E index \in Thumbnails : OpenCropModal(index)
    \/ \E k \in 1 .. Len(editorLoads) : EditorImageRead(k)
    \/ \E k \in 1 .. Len(editorLoads) : EditorImageShown(k)
    \/ \E handle \in {"se", "n"} : HandleHandleMouseDown(handle, 0, 0)
    \/ \E clientX \in {0, 40}, clientY \in {0, 40} :
          HandleMouseMove(clientX, clientY)
    \/ HandleMouseUp
    \/ CloseCropModal

SpecRatio == Init /\ [][NextRatio]_vars

(* two fractions that are the same number *)
SameNumber(a, b) == a[2] # 0 /\ b[2] # 0 /\ a[1] * b[2] = a[2] * b[1]

(* a ratio as "W:H" and the same ratio as a decimal *)
SameRatioTexts == {<<"4:5", "0.8">>, <<"1:1", "1">>}

(* C27: a ratio given as "W:H" and the same ratio given as a bare decimal
   resolve to the same number in every consumer (the thumbnails and the
   preview, the editor when it opens, the resize drag); 'original' resolves
   to the natural width / height of the image drawn in a render, and in an
   editor that has measured its image to the ratio of that image, whichever
   image it is. *)
C27_RatioResolution ==
    /\ \A pair \in SameRatioTexts : \A text \in {pair[1], pair[2]} :
           LET number == PreviewRatio(pair[1], 1, 1)
           IN  /\ \A i \in 1 .. Len(selectedFiles) :
                      SameNumber(PreviewRatio(text, selectedFiles[i].width,
                                              selectedFiles[i].height), number)
               /\ SameNumber(TargetRatio(text, cropState.imageWidth,
                                         cropState.imageHeight), number)
               /\ SameNumber(ResizeRatio(text, cropState.originalAspectRatio),
                             number)
    /\ \A i \in 1 .. Len(selectedFiles) :
           IsImage(selectedFiles[i])
               => SameNumber(PreviewRatio("original", selectedFiles[i].width,
                                          selectedFiles[i].height),
                             <<selectedFiles[i].width, selectedFiles[i].height>>)
    /\ (modalOpen /\ editorLoads = <<>> /\ cropState.cropBox # <<>>)
           => LET natural == <<cropImage.width, cropImage.height>>
                  opened == TargetRatio("original", cropState.imageWidth,
                                        cropState.imageHeight)
                  dragged == ResizeRatio("original",
                                         cropState.originalAspectRatio)
              IN  /\ HasRatio(opened[1], opened[2], natural)
                  /\ HasRatio(dragged[1], dragged[2], natural)

(* C27, the case: under the decimal "0.8" the editor has been opened on the
   portrait image and a handle dragged; the box has ratio 4:5 and not the
   ratio of the image *)
C27_Witness ==
    /\ aspectRatio = "0.8"
    /\ modalOpen
    /\ cropState.isResizing
    /\ cropState.cropBox # <<>>
    /\ cropImage.width = Tall.width
    /\ cropState.cropBox[1].width # cropState.startWidth
    /\ HasRatio(cropState.cropBox[1].width, cropState.cropBox[1].height,
                <<4, 5>>)

----------------------------------------------------------------------------
(* The frames of the preview: one image, cropped in the editor, the ratio
   switched between two values and the preview rendered again and again. *)

FrameBatches == {<<Wide>>}

NextFrames ==
    \/ /\ selectedFiles = <<>>
       /\ \E batch \in FrameBatches : HandleMediaSelect(NewFiles(batch))
    \/ \E k \in 1 .. Len(ingests) : ProcessImageDone(k)
    \/ \E ratio \in Ratios : SelectAspectRatio(ratio)
    \/ \E index \in Thumbnails : OpenCropModal(index)
    \/ \E k \in 1 .. Len(editorLoads) : EditorImageRead(k)
    \/ \E k \in 1 .. Len(editorLoads) : EditorImageShown(k)
    \/ ApplyCrop
    \/ \E k \in 1 .. Len(commits) : ApplyCropDone(k)
    \/ CloseCropModal
    \/ UpdatePreview
    \/ \E file \in previews : PreviewDecoded(file)

SpecFrames == InitFrames /\ [][NextFrames]_vars

(* the steps that only render: the caption typed, a decode of the preview
   completed, a ratio chosen in the select *)
RenderStep ==
    \/ UpdatePreview
    \/ \E file \in previews : PreviewDecoded(file)
    \/ \E ratio \in Ratios : SelectAspectRatio(ratio)

(* frames of one bitmap cut under one ratio from one window show one
   rectangle *)
SameFrames ==
    \A i, j \in 1 .. Len(rendered) :
        (/\ rendered[i].id = rendered[j].id
         /\ rendered[i].ratio = rendered[j].ratio
         /\ rendered[i].window = rendered[j].window)
            => rendered[i].box = rendered[j].box

(* C23: a step that renders leaves the crop store, the item list and the
   cursor as they were, and the rectangle drawn is worked out from the stored
   window each time: the frames rendered under a ratio A, then B, then A
   again from one window show the same rectangle under A both times. *)
C23_RenderingKeepsStore ==
    /\ []SameFrames
    /\ [][RenderStep => UNCHANGED <<cropData, selectedFiles,
                                    currentCarouselIndex>>]_vars

(* C23, the case: three frames of the cropped image, under a ratio, another
   and the first again; the second rectangle differs, the third is the
   first *)
C23_Witness ==
    /\ Len(rendered) = 3
    /\ previews = {}
    /\ selectedFiles # <<>>
    /\ cropData[currentCarouselIndex].cropped
    /\ \A i \in 1 .. 3 :
           /\ rendered[i].id = selectedFiles[currentCarouselIndex + 1].id
           /\ rendered[i].window = cropData[currentCarouselIndex]
           /\ rendered[i].box # NoBox
    /\ rendered[1].ratio = rendered[3].ratio
    /\ rendered[1].ratio # rendered[2].ratio
    /\ rendered[1].box = rendered[3].box
    /\ rendered[1].box # rendered[2].box

----------------------------------------------------------------------------
(* The request: two images, either cropped in the editor or not, and the
   post submitted. *)

SubmitBatches == {<<Wide, Tall>>}

NextSubmit ==
    \/ /\ selectedFiles = <<>>
       /\ \E batch \in SubmitBatches : HandleMediaSelect(NewFiles(batch))
    \/ \E k \in 1 .. Len(ingests) : ProcessImageDone(k)
    \/ /\ formData.awaiting = <<>>
       /\ \E index \in Thumbnails : OpenCropModal(index)
    \/ \E k \in 1 .. Len(editorLoads) : EditorImageRead(k)
    \/ \E k \in 1 .. Len(editorLoads) : EditorImageShown(k)
    \/ ApplyCrop
    \/ \E k \in 1 .. Len(commits) : ApplyCropDone(k)
    \/ CloseCropModal
    \/ /\ commits = <<>>
       /\ HandleCreatePost
    \/ ApplyCropToFileDone
    \/ \E ok \in BOOLEAN : SubmitDone(ok)

SpecSubmit == InitFollowing /\ [][NextSubmit]_vars

(* the file of the source rectangle the window describes: left = centerX -
   boxWidth / 2, top = centerY - boxHeight / 2, boxWidth by boxHeight *)
CroppedToWindow(file, window) ==
    [file |-> file, cropped |-> TRUE,
     rect |-> <<[x |-> (2 * window.centerX - window.boxWidth) \div 2,
                 y |-> (2 * window.centerY - window.boxHeight) \div 2,
                 width |-> window.boxWidth, height |-> window.boxHeight]>>]

(* C24: the request that is sent holds the items in list order, an item with
   a stored window cropped to the rectangle of the source the window
   describes and an item without one as it is. *)
C24_SubmitSendsWindows ==
    [][(formData' # formData /\ formData'.sent)
        => /\ Len(formData'.media) = Len(selectedFiles)
           /\ \A k \in 1 .. Len(selectedFiles) :
                  formData'.media[k] =
                      IF cropData[k - 1].cropped
                          THEN CroppedToWindow(selectedFiles[k], cropData[k - 1])
                          ELSE WholeFile(selectedFiles[k])]_vars

----------------------------------------------------------------------------
(* The preview: two images, one cropped in the editor, the carousel turned
   and the list reordered, reduced and replaced while decodes of the preview
   are pending. *)

PreviewBatches == {<<Wide, Tall>>}

NextPreview ==
    \/ \E batch \in PreviewBatches : HandleMediaSelect(NewFiles(batch))
    \/ \E k \in 1 .. Len(ingests) : ProcessImageDone(k)
    \/ \E index \in Thumbnails : OpenCropModal(index)
    \/ \E k \in 1 .. Len(editorLoads) : EditorImageRead(k)
    \/ \E k \in 1 .. Len(editorLoads) : EditorImageShown(k)
    \/ ApplyCrop
    \/ \E k \in 1 .. Len(commits) : ApplyCropDone(k)
    \/ CloseCropModal
    \/ \E direction \in {-1, 1} : NavigateCarousel(direction)
    \/ \E index \in Thumbnails : MoveMediaDown(index)
    \/ RenderTimer
    \/ \E index \in Thumbnails : RemoveMedia(index)
    \/ \E file \in previews : PreviewDecoded(file)

SpecPreview == InitFollowing /\ [][NextPreview]_vars

(* the decode of `file` that completes applies a window, and the window is
   stored for another item than `file` *)
AppliesWindowOfOther(file) ==
    /\ cropData[currentCarouselIndex].cropped
    /\ \/ currentCarouselIndex >= Len(selectedFiles)
       \/ selectedFiles[currentCarouselIndex + 1].id # file.id

(* no decode is pending and the preview shows the item at the cursor *)
ShowsCursor ==
    (previews = {} /\ selectedFiles # <<>> /\ rendered # <<>>)
        => rendered[Len(rendered)].id
              = selectedFiles[currentCarouselIndex + 1].id

(* C30, first part: a decode of the preview that completes applies the
   window stored for the item whose bitmap it draws, whatever happened to
   the cursor and the list while it was pending. *)
C30_WindowOfBitmap ==
    [][\A file \in previews :
          PreviewDecoded(file) => ~AppliesWindowOfOther(file)]_vars

(* C30: a decode of the preview that completes applies the window of the
   item whose bitmap it draws, and once no decode is pending the preview
   shows the item at the cursor. *)
C30_RenderOfCursor == C30_WindowOfBitmap /\ []ShowsCursor

----------------------------------------------------------------------------
(* C31: the decode of a crop commit that completes stores its window under
   the index of an item of the list, the one open in the editor when the
   commit was issued: never under the null key the editor leaves when it is
   closed, and never under a key beyond the list. *)
C31_CommitKeyIsItem ==
    [][\A k \in 1 .. Len(commits) :
          ApplyCropDone(k) => /\ currentCropIndex # Null
                              /\ currentCropIndex \in Thumbnails]_vars

----------------------------------------------------------------------------
(* the controller is Idle: not moving, not resizing, no handle active *)
Idle(state) ==
    ~state.isMoving /\ ~state.isResizing /\ state.resizeHandle = NoHandle

(* the controller after a mouseup event on the document: handleMouseUp runs
   where setupCropBoxListeners has attached it and closeCropModal has not
   removed it, and nothing runs otherwise *)
AfterMouseUp ==
    IF listeners = "all"
        THEN [cropState EXCEPT !.isMoving = FALSE, !.isResizing = FALSE,
                               !.resizeHandle = NoHandle]
        ELSE cropState

(* a press on the crop box or on one of its handles *)
PointerDown ==
    \E clientX \in {0, 40}, clientY \in {0} :
        \/ HandleCropBoxMouseDown(clientX, clientY)
        \/ \E handle \in Handles :
              HandleHandleMouseDown(handle, clientX, clientY)

(* a pointer move *)
PointerMove ==
    \E clientX \in {0, 40}, clientY \in {0} : HandleMouseMove(clientX, clientY)

(* C32: in every state of the controller a pointer-up event leaves it Idle;
   while it is Idle a pointer move leaves the position and size of the crop
   box as they are, and it stays Idle until the next pointer-down. *)
C32_PointerUpIdles ==
    /\ []Idle(AfterMouseUp)
    /\ [][/\ HandleMouseUp => Idle(cropState')
          /\ (Idle(cropState) /\ PointerMove)
                => UNCHANGED <<cropBox, cropState>>
          /\ (Idle(cropState) /\ ~PointerDown) => Idle(cropState')]_vars

----------------------------------------------------------------------------
(* the editor shows the item under edit with the box where openCropModal
   restored it from the stored window: no pointer has moved or resized it *)
AsRestored ==
    /\ modalOpen
    /\ currentCropIndex \in Thumbnails
    /\ cropImage.id = selectedFiles[currentCropIndex + 1].id
    /\ cropData[currentCropIndex].cropped
    /\ cropData[currentCropIndex].centerX # NaN
    /\ Idle(cropState)
    /\ LET restored ==
               RestoredBox(cropData[currentCropIndex],
                           DisplayWidth(cropImage, modalOpen),
                           DisplayHeight(cropImage, modalOpen),
                           cropImage.width, cropImage.height)
       IN  cropState.cropBox = <<restored>> /\ cropBox = restored

(* the numbers of a window *)
Numbers(window) ==
    <<window.centerX, window.centerY, window.boxWidth, window.boxHeight>>

(* C33: the editor opened on an item that has a stored window and the
   commit made with the box as it was restored stores the window that was
   stored: the conversion to display pixels on open and the conversion to
   source pixels on commit round-trip. *)
C33_CommitRoundTrips ==
    [][\A k \in 1 .. Len(commits) :
          (AsRestored /\ ApplyCropDone(k))
              => /\ cropData'[currentCropIndex].cropped
                 /\ Numbers(cropData'[currentCropIndex])
                        = Numbers(cropData[currentCropIndex])]_vars

(* C33, the case: the editor opened a second time on the image, whose
   stored window is not the whole image, the box as restored and the commit
   issued *)
C33_Witness ==
    /\ AsRestored
    /\ opens = 2
    /\ commits # <<>>
    /\ cropData[currentCropIndex].boxWidth < cropImage.width
    /\ 2 * cropData[currentCropIndex].centerX # cropImage.width

----------------------------------------------------------------------------
(* Ingest where every file read, decode and re-encode that was started
   signals its end: the await of a suspended handleMediaSelect completes. *)

SpecIngestFair ==
    /\ Init
    /\ [][NextIngest]_vars
    /\ WF_vars(\E k \in 1 .. Len(ingests) : ProcessImageDone(k))

(* C34: every selection that was accepted and is being processed finishes:
   whatever its reads, decodes and re-encodes signal, success or failure, the
   call runs to its end, and at its end it installs its batch. *)
C34_IngestFinishes ==
    /\ (ingests # <<>>) ~> (ingests = <<>>)
    /\ [][Len(ingests') < Len(ingests)
            => \E k \in 1 .. Len(ingests) :
                  /\ ingests' = RemoveAt(ingests, k)
                  /\ IsProcessingOf(selectedFiles', ingests[k].files)]_vars

(* C34, the case: an image over the size limit whose re-encoding failed (its
   canvas has no width) is in the list as it was selected, and nothing is
   pending *)
C34_Witness ==
    /\ ingests = <<>>
    /\ Len(selectedFiles) = 1
    /\ NeedsResize(selectedFiles[1])
    /\ ResizeWidth(selectedFiles[1].width, selectedFiles[1].height) = 0

----------------------------------------------------------------------------
(* C35: after the reset that a successful submission runs, nothing of the
   composition is left: the list is empty, the crop store is empty, the
   cursor is 0, the ratio is 'original', and the crop editor is closed, with
   no item under edit and the controller Idle. *)
C35_ResetLeavesNothing ==
    [][SubmitDone(TRUE)
          => /\ selectedFiles' = <<>>
             /\ \A key \in DOMAIN cropData' : ~cropData'[key].cropped
             /\ currentCarouselIndex' = 0
             /\ aspectRatio' = "original"
             /\ ~modalOpen'
             /\ currentCropIndex' = Null
             /\ Idle(cropState')]_vars

----------------------------------------------------------------------------
(* The select on 'custom': one selection, the select set to a ratio or to
   'custom', the editor opened and a handle dragged. *)

SelectorValues == {"original", "1:1", "custom"}

NextSelector ==
    \/ /\ selectedFiles = <<>>
       /\ \E batch \in PointerBatches : HandleMediaSelect(NewFiles(batch))
    \/ \E k \in 1 .. Len(ingests) : ProcessImageDone(k)
    \/ \E value \in SelectorValues : SelectAspectRatio(value)
    \/ \E index \in Thumbnails : OpenCropModal(index)
    \/ \E k \in 1 .. Len(editorLoads) : EditorImageRead(k)
    \/ \E k \in 1 .. Len(editorLoads) : EditorImageShown(k)
    \/ \E handle \in {"se", "n"} : HandleHandleMouseDown(handle, 0, 0)
    \/ \E clientX \in {0, 40}, clientY \in {0, 40} :
          HandleMouseMove(clientX, clientY)
    \/ HandleMouseUp
    \/ CloseCropModal

SpecSelector == Init /\ [][NextSelector]_vars

(* C36: whatever the select and the custom text hold, 'custom' with no text
   included, the consumers resolve one setting: the frames of the thumbnails
   and of the preview, the editor when it opens and the submission read the
   setting that the crops of the thumbnails and of the preview and the resize
   drag read; in an editor that has measured its image the ratio of the
   default box is the ratio a drag keeps. *)
C36_OneSetting ==
    /\ FrameSetting(aspectRatio, customAspectRatio)
          = CropSetting(aspectRatio, customAspectRatio)
    /\ (modalOpen /\ cropState.cropBox # <<>> /\ cropState.imageWidth > 0)
          => SameNumber(TargetRatio(aspectRatio, cropState.imageWidth,
                                    cropState.imageHeight),
                        ResizeRatio(aspectRatio,
                                    cropState.originalAspectRatio))

----------------------------------------------------------------------------
(* the box at the last mousedown on a handle *)
BoxAtHandleDown ==
    [x |-> cropState.startLeft, y |-> cropState.startTop,
     width |-> cropState.startWidth, height |-> cropState.startHeight]

(* the resize to (clientX, clientY) is not clamped to the bounds of the
   image: the box is the one an image without bounds would give, and its
   corner was not pulled back to the left or top edge *)
Unclamped(clientX, clientY) ==
    LET deltaX == clientX - cropState.startX
        deltaY == clientY - cropState.startY
        handle == cropState.resizeHandle
        box == ResizedBox(cropState, aspectRatio, deltaX, deltaY)
        free == ResizedBox([cropState EXCEPT !.imageWidth = 100000,
                                             !.imageHeight = 100000],
                           aspectRatio, deltaX, deltaY)
    IN  /\ box = free
        /\ box.x = IF Includes(handle, "w") THEN cropState.startLeft + deltaX
                   ELSE cropState.startLeft
        /\ box.y = IF Includes(handle, "n") THEN cropState.startTop + deltaY
                   ELSE cropState.startTop

(* C37: in a resize that is not clamped to the bounds of the image, the
   edges that do not belong to the handle stay where they were at
   pointer-down: the east, south and south-east handles keep the top-left
   corner, the west handle keeps the right edge, the north handle keeps the
   bottom edge. *)
C37_ResizeKeepsOtherEdges ==
    [][\A clientX \in ClientXs, clientY \in ClientYs :
          (/\ cropState.isResizing
           /\ ~cropState.isMoving
           /\ cropState.cropBox # <<>>
           /\ cropState.resizeHandle \in Handles
           /\ InsideImage(BoxAtHandleDown, cropState)
           /\ HandleMouseMove(clientX, clientY)
           /\ Unclamped(clientX, clientY))
              => LET handle == cropState.resizeHandle
                     box == cropState'.cropBox[1]
                 IN  /\ handle \in {"e", "s", "se"}
                          => /\ box.x = cropState.startLeft
                             /\ box.y = cropState.startTop
                     /\ handle = "w"
                          => box.x + box.width
                                = cropState.startLeft + cropState.startWidth
                     /\ handle = "n"
                          => box.y + box.height
                                = cropState.startTop + cropState.startHeight]_vars

----------------------------------------------------------------------------
(* the box is the largest of the target ratio within an image of the given
   size, centred on it, to the pixel *)
LargestCentred(box, imageWidth, imageHeight, target) ==
    /\ HasRatio(box.width, box.height, target)
    /\ \/ box.width = imageWidth /\ box.height <= imageHeight
       \/ box.height = imageHeight /\ box.width <= imageWidth
    /\ Near(2 * (box.x - imageLeft) + box.width, imageWidth)
    /\ Near(2 * (box.y - imageTop) + box.height, imageHeight)

(* C38: when the open editor has measured the image of an item that has no
   stored window, the crop box it places is the largest rectangle of the
   target ratio in force that fits the displayed image, centred on it: its
   ratio is the target, one of its sides is the image's and the other is not
   longer than the image's. *)
C38_DefaultBoxIsLargest ==
    [][\A k \in 1 .. Len(editorLoads) :
          (/\ modalOpen
           /\ ~cropData[editorLoads[k].index].cropped
           /\ EditorImageShown(k))
              => /\ cropState'.cropBox # <<>>
                 /\ LargestCentred(cropState'.cropBox[1],
                                   cropState'.imageWidth,
                                   cropState'.imageHeight,
                                   TargetRatio(aspectRatio,
                                               cropState'.imageWidth,
                                               cropState'.imageHeight))
                 /\ cropBox' = cropState'.cropBox[1]]_vars

(* C38, the case: under 4:5 the editor has opened on the landscape image,
   which has no window; the box has the height of the image and is narrower
   than it, and no pointer has touched it *)
C38_Witness ==
    /\ modalOpen
    /\ editorLoads = <<>>
    /\ downs = 0
    /\ aspectRatio = "4:5"
    /\ cropImage.width = Wide.width
    /\ currentCropIndex \in Thumbnails
    /\ ~cropData[currentCropIndex].cropped
    /\ cropState.cropBox # <<>>
    /\ cropState.cropBox[1].height = cropState.imageHeight
    /\ cropState.cropBox[1].width < cropState.imageWidth
    /\ cropBox = cropState.cropBox[1]

====
